---- MODULE Spec2Model ----
(***************************************************************************)
(* A model of the ai-traffic-control simulation: the four-phase signal     *)
(* controller (src/src/entities/traffic_light.py), the orchestrator's tick *)
(* (src/src/simulation.py), the vehicles with the junction reservation     *)
(* ledger (src/src/entities/vehicle.py), the pedestrians                   *)
(* (src/src/entities/pedestrian.py) and the learning agent's exploration   *)
(* rate and replay memory (src/src/entities/agent.py).                     *)
(*                                                                         *)
(* The specifications share the variables:                                 *)
(*   SpecAPI      the TrafficLight object under every sequence of calls of *)
(*                its methods, with every argument;                        *)
(*   SpecCycle    the same without a call that activates the override;     *)
(*   SpecCtl      the signal step of TrafficSimulation.update, tick after  *)
(*                tick, with the queue lengths, the emergency vehicles and *)
(*                the policy's action of each tick drawn from small sets;  *)
(*   Spec, SpecRush, SpecCross, SpecSiren                                  *)
(*                the whole run loop with vehicles, pedestrians and ledger *)
(*                under four choices of what random and the operator do;   *)
(*   SpecStandoff _update_entities with a pedestrian who stands still;     *)
(*   SpecMove     Vehicle.move with and without a light;                   *)
(*   SpecPed      the Pedestrian object under every sequence of calls;     *)
(*   SpecAgent    the DQNAgent under every sequence of remember and train. *)
(***************************************************************************)
EXTENDS Integers, Sequences, FiniteSets, TLC

VARIABLES
    traffic_light,   \* TrafficSimulation.traffic_light: [state, timer, emergency_mode]
    use_drl,         \* TrafficSimulation.use_drl
    frame_count,     \* TrafficSimulation.frame_count
    calls,           \* the TrafficLight calls of the last step, in order: [op, args, post]
    shown,           \* ticks in which the present phase has been published outside override
    cars,            \* TrafficSimulation.cars: the vehicles, in creation order
    pedestrians,     \* TrafficSimulation.pedestrians
    junction_reservation,  \* TrafficSimulation.junction_reservation: vehicle ids
    moves,           \* the Vehicle.move calls of the last tick, in order
    entered,         \* per vehicle id: its rank of arrival in the admission window, 0 if none
    clicks,          \* clicks on the emergency button so far
    ticks,           \* pygame.time.get_ticks(): milliseconds on the clock
    agent            \* the DQNAgent: [epsilon, memory, remembered, updates]

vars == <<traffic_light, use_drl, frame_count, calls, shown,
          cars, pedestrians, junction_reservation, moves, entered, clicks,
          ticks, agent>>

\* The agents, the ledger and what is recorded about them
world == <<cars, pedestrians, junction_reservation, moves, entered, clicks>>

\* The clock and the learning agent. The specifications of the signal and of the run
\* loop draw the agent's action from a set and have no pedestrian that is DOWN (hit
\* has no caller), the only reader of the clock: they leave both as they are.
aside == <<ticks, agent>>

(***************************************************************************)
(* Configuration (src/src/config.py)                                       *)
(***************************************************************************)
MIN_GREEN_TIME == 240
YELLOW_TIME == 90

COLOR_RED_ON == <<255, 0, 0>>
COLOR_YELLOW_ON == <<255, 200, 0>>
COLOR_GREEN_ON == <<0, 255, 0>>

(***************************************************************************)
(* DQNAgent (src/src/entities/agent.py): the exploration rate and the      *)
(* replay memory. epsilon is kept in millionths, a product is truncated to *)
(* a millionth; an experience is known by its serial number, the weights  *)
(* and biases by the number of updates train has made to them.             *)
(***************************************************************************)
MILLION == 1000000
epsilon_min == (5 * MILLION) \div 100           \* 0.05
epsilon_decay_num == 995                         \* epsilon_decay = 0.995
epsilon_decay_den == 1000

MaxMemory == 3       \* the model's maxlen of the replay memory (5000 in the code)
MaxRemember == 7     \* SpecAgent: remember is not called more often than this
MaxUpdates == 602    \* SpecAgent: train is not called once the weights have been updated so often

\* DQNAgent.__init__
DQNAgent_init == [epsilon |-> MILLION, memory |-> <<>>, remembered |-> 0, updates |-> 0]

\* No vehicle, no pedestrian, an empty ledger: TrafficSimulation.__init__
NoAgents ==
    /\ ticks = 0
    /\ agent = DQNAgent_init
    /\ cars = <<>>
    /\ pedestrians = <<>>
    /\ junction_reservation = <<>>
    /\ moves = <<>>
    /\ entered = <<>>
    /\ clicks = 0

(***************************************************************************)
(* Bounds of the model                                                     *)
(***************************************************************************)
MaxTimer == 245      \* SpecAPI: update is not called once the timer is here
MaxFrameCtl == 400   \* SpecCtl: ticks per run
MaxQueue == 1        \* SpecAPI, SpecCtl: stopped vehicles per axis given to update

(***************************************************************************)
(* TrafficLight                                                            *)
(***************************************************************************)
Axis == {"NS", "EW"}
LightState == {"NS_GREEN", "NS_YELLOW", "EW_GREEN", "EW_YELLOW"}
Direction == {"N", "S", "E", "W"}
NoDirection == "None"

TrafficLight_init ==
    [state |-> "NS_GREEN", timer |-> 0, emergency_mode |-> FALSE]

\* update with the minimum-green test off by two (timer + 1 > MIN_GREEN_TIME - 1)
TrafficLight_update_early(tl, queues) ==
    IF tl.emergency_mode THEN tl
    ELSE LET t == tl.timer + 1 IN
         CASE tl.state = "NS_GREEN" ->
                IF t > MIN_GREEN_TIME - 2 /\ queues["EW"] > queues["NS"]
                THEN [tl EXCEPT !.state = "NS_YELLOW", !.timer = 0]
                ELSE [tl EXCEPT !.timer = t]
           [] tl.state = "NS_YELLOW" ->
                IF t >= YELLOW_TIME
                THEN [tl EXCEPT !.state = "EW_GREEN", !.timer = 0]
                ELSE [tl EXCEPT !.timer = t]
           [] tl.state = "EW_GREEN" ->
                IF t > MIN_GREEN_TIME - 2 /\ queues["NS"] > queues["EW"]
                THEN [tl EXCEPT !.state = "EW_YELLOW", !.timer = 0]
                ELSE [tl EXCEPT !.timer = t]
           [] tl.state = "EW_YELLOW" ->
                IF t >= YELLOW_TIME
                THEN [tl EXCEPT !.state = "NS_GREEN", !.timer = 0]
                ELSE [tl EXCEPT !.timer = t]

\* update without the early return under emergency_mode
TrafficLight_update_unguarded(tl, queues) ==
    LET t == tl.timer + 1 IN
    CASE tl.state = "NS_GREEN" ->
           IF t > MIN_GREEN_TIME /\ queues["EW"] > queues["NS"]
           THEN [tl EXCEPT !.state = "NS_YELLOW", !.timer = 0]
           ELSE [tl EXCEPT !.timer = t]
      [] tl.state = "NS_YELLOW" ->
           IF t >= YELLOW_TIME
           THEN [tl EXCEPT !.state = "EW_GREEN", !.timer = 0]
           ELSE [tl EXCEPT !.timer = t]
      [] tl.state = "EW_GREEN" ->
           IF t > MIN_GREEN_TIME /\ queues["NS"] > queues["EW"]
           THEN [tl EXCEPT !.state = "EW_YELLOW", !.timer = 0]
           ELSE [tl EXCEPT !.timer = t]
      [] tl.state = "EW_YELLOW" ->
           IF t >= YELLOW_TIME
           THEN [tl EXCEPT !.state = "NS_GREEN", !.timer = 0]
           ELSE [tl EXCEPT !.timer = t]

\* update with the yellow phases leading back to the green they came from
TrafficLight_update_back(tl, queues) ==
    IF tl.emergency_mode THEN tl
    ELSE LET t == tl.timer + 1 IN
         CASE tl.state = "NS_GREEN" ->
                IF t > MIN_GREEN_TIME /\ queues["EW"] > queues["NS"]
                THEN [tl EXCEPT !.state = "NS_YELLOW", !.timer = 0]
                ELSE [tl EXCEPT !.timer = t]
           [] tl.state = "NS_YELLOW" ->
                IF t >= YELLOW_TIME
                THEN [tl EXCEPT !.state = "NS_GREEN", !.timer = 0]
                ELSE [tl EXCEPT !.timer = t]
           [] tl.state = "EW_GREEN" ->
                IF t > MIN_GREEN_TIME /\ queues["NS"] > queues["EW"]
                THEN [tl EXCEPT !.state = "EW_YELLOW", !.timer = 0]
                ELSE [tl EXCEPT !.timer = t]
           [] tl.state = "EW_YELLOW" ->
                IF t >= YELLOW_TIME
                THEN [tl EXCEPT !.state = "EW_GREEN", !.timer = 0]
                ELSE [tl EXCEPT !.timer = t]

\* update that also leaves a green when the two queues are equal
TrafficLight_update_on_tie(tl, queues) ==
    IF tl.emergency_mode THEN tl
    ELSE LET t == tl.timer + 1 IN
         CASE tl.state = "NS_GREEN" ->
                IF t > MIN_GREEN_TIME /\ queues["EW"] >= queues["NS"]
                THEN [tl EXCEPT !.state = "NS_YELLOW", !.timer = 0]
                ELSE [tl EXCEPT !.timer = t]
           [] tl.state = "NS_YELLOW" ->
                IF t >= YELLOW_TIME
                THEN [tl EXCEPT !.state = "EW_GREEN", !.timer = 0]
                ELSE [tl EXCEPT !.timer = t]
           [] tl.state = "EW_GREEN" ->
                IF t > MIN_GREEN_TIME /\ queues["NS"] >= queues["EW"]
                THEN [tl EXCEPT !.state = "EW_YELLOW", !.timer = 0]
                ELSE [tl EXCEPT !.timer = t]
           [] tl.state = "EW_YELLOW" ->
                IF t >= YELLOW_TIME
                THEN [tl EXCEPT !.state = "NS_GREEN", !.timer = 0]
                ELSE [tl EXCEPT !.timer = t]

\* TrafficLight.update(queues)
TrafficLight_update(tl, queues) ==
    IF tl.emergency_mode THEN tl
    ELSE LET t == tl.timer + 1 IN
         CASE tl.state = "NS_GREEN" ->
                IF t > MIN_GREEN_TIME /\ queues["EW"] > queues["NS"]
                THEN [tl EXCEPT !.state = "NS_YELLOW", !.timer = 0]
                ELSE [tl EXCEPT !.timer = t]
           [] tl.state = "NS_YELLOW" ->
                IF t >= YELLOW_TIME
                THEN [tl EXCEPT !.state = "EW_GREEN", !.timer = 0]
                ELSE [tl EXCEPT !.timer = t]
           [] tl.state = "EW_GREEN" ->
                IF t > MIN_GREEN_TIME /\ queues["NS"] > queues["EW"]
                THEN [tl EXCEPT !.state = "EW_YELLOW", !.timer = 0]
                ELSE [tl EXCEPT !.timer = t]
           [] tl.state = "EW_YELLOW" ->
                IF t >= YELLOW_TIME
                THEN [tl EXCEPT !.state = "NS_GREEN", !.timer = 0]
                ELSE [tl EXCEPT !.timer = t]

\* get_color_state that shows the cross axis green during a yellow
get_color_state_overlap(tl, axis) ==
    IF axis = "NS" THEN
        IF tl.state = "NS_GREEN" THEN COLOR_GREEN_ON
        ELSE IF tl.state = "NS_YELLOW" THEN COLOR_YELLOW_ON
        ELSE COLOR_RED_ON
    ELSE IF axis = "EW" THEN
        IF tl.state = "EW_GREEN" \/ tl.state = "NS_YELLOW" THEN COLOR_GREEN_ON
        ELSE IF tl.state = "EW_YELLOW" THEN COLOR_YELLOW_ON
        ELSE COLOR_RED_ON
    ELSE COLOR_RED_ON

\* TrafficLight.get_color_state(axis)
get_color_state(tl, axis) ==
    IF axis = "NS" THEN
        IF tl.state = "NS_GREEN" THEN COLOR_GREEN_ON
        ELSE IF tl.state = "NS_YELLOW" THEN COLOR_YELLOW_ON
        ELSE COLOR_RED_ON
    ELSE IF axis = "EW" THEN
        IF tl.state = "EW_GREEN" THEN COLOR_GREEN_ON
        ELSE IF tl.state = "EW_YELLOW" THEN COLOR_YELLOW_ON
        ELSE COLOR_RED_ON
    ELSE COLOR_RED_ON

\* A get_color_state that counts as a tick of the phase timer
call_get_color_state_ticking(tl, axis) ==
    [ret |-> get_color_state(tl, axis), post |-> [tl EXCEPT !.timer = tl.timer + 1]]

\* A call of get_color_state(axis) on the light tl: what it returns and the light it
\* leaves. The method reads self.state and assigns nothing.
call_get_color_state(tl, axis) ==
    [ret |-> get_color_state(tl, axis), post |-> tl]

\* set_emergency_mode that forces the green and leaves the timer running
set_emergency_mode_keeps_timer(tl, active, direction) ==
    IF active /\ direction # NoDirection
    THEN [tl EXCEPT !.emergency_mode = active,
                    !.state = IF direction \in {"N", "S"} THEN "NS_GREEN" ELSE "EW_GREEN"]
    ELSE [tl EXCEPT !.emergency_mode = active]

\* TrafficLight.set_emergency_mode(active, direction); NoDirection is None
set_emergency_mode(tl, active, direction) ==
    LET tl1 == [tl EXCEPT !.emergency_mode = active] IN
    IF active /\ direction # NoDirection
    THEN [tl1 EXCEPT !.state = IF direction \in {"N", "S"} THEN "NS_GREEN"
                                                             ELSE "EW_GREEN",
                     !.timer = 0]
    ELSE tl1

\* apply_action without the minimum-green test
apply_action_anytime(tl, action) ==
    IF tl.emergency_mode THEN tl
    ELSE IF action = 1 THEN
        IF tl.state = "NS_GREEN" THEN [tl EXCEPT !.state = "NS_YELLOW", !.timer = 0]
        ELSE IF tl.state = "EW_GREEN" THEN [tl EXCEPT !.state = "EW_YELLOW", !.timer = 0]
        ELSE tl
    ELSE tl

\* apply_action that switches to the other axis's green without a yellow
apply_action_skips(tl, action) ==
    IF tl.emergency_mode \/ tl.timer < MIN_GREEN_TIME THEN tl
    ELSE IF action = 1 THEN
        IF tl.state = "NS_GREEN" THEN [tl EXCEPT !.state = "EW_GREEN", !.timer = 0]
        ELSE IF tl.state = "EW_GREEN" THEN [tl EXCEPT !.state = "NS_GREEN", !.timer = 0]
        ELSE tl
    ELSE tl

\* apply_action without the test of the emergency flag
apply_action_in_override(tl, action) ==
    IF tl.timer < MIN_GREEN_TIME THEN tl
    ELSE IF action = 1 THEN
        IF tl.state = "NS_GREEN" THEN [tl EXCEPT !.state = "NS_YELLOW", !.timer = 0]
        ELSE IF tl.state = "EW_GREEN" THEN [tl EXCEPT !.state = "EW_YELLOW", !.timer = 0]
        ELSE tl
    ELSE tl

\* TrafficLight.apply_action(action)
apply_action(tl, action) ==
    IF tl.emergency_mode \/ tl.timer < MIN_GREEN_TIME THEN tl
    ELSE IF action = 1 THEN
        IF tl.state = "NS_GREEN" THEN [tl EXCEPT !.state = "NS_YELLOW", !.timer = 0]
        ELSE IF tl.state = "EW_GREEN" THEN [tl EXCEPT !.state = "EW_YELLOW", !.timer = 0]
        ELSE tl
    ELSE tl

\* One entry of the call log: the method, its arguments and the light it leaves. The
\* light it finds is the one the call before it left: see Pre.
Call(op, args, post) == [op |-> op, args |-> args, post |-> post]

(***************************************************************************)
(* SpecAPI: the TrafficLight object alone, any call in any order           *)
(***************************************************************************)
QueueInputs == [Axis -> 0..MaxQueue]

CallUpdate ==
    /\ traffic_light.timer < MaxTimer
    /\ \E queues \in QueueInputs :
         LET post == TrafficLight_update(traffic_light, queues) IN
         /\ traffic_light' = post
         /\ calls' = <<Call("update", <<queues>>, post)>>
    /\ UNCHANGED <<use_drl, frame_count, shown, world, aside>>

\* The actions apply_action is called with: hold, switch and a number that is neither
ApiActions == {0, 1, 2}

CallApplyAction ==
    /\ \E action \in ApiActions :
         LET post == apply_action(traffic_light, action) IN
         /\ traffic_light' = post
         /\ calls' = <<Call("apply_action", <<action>>, post)>>
    /\ UNCHANGED <<use_drl, frame_count, shown, world, aside>>

CallSetEmergencyMode ==
    /\ \E active \in BOOLEAN, direction \in Direction \cup {NoDirection} :
         LET post == set_emergency_mode(traffic_light, active, direction) IN
         /\ traffic_light' = post
         /\ calls' = <<Call("set_emergency_mode", <<active, direction>>, post)>>
    /\ UNCHANGED <<use_drl, frame_count, shown, world, aside>>

CallGetColorState ==
    /\ \E axis \in Axis :
         /\ traffic_light' = call_get_color_state(traffic_light, axis).post
         /\ calls' = <<[op |-> "get_color_state", args |-> <<axis>>,
                        post |-> call_get_color_state(traffic_light, axis).post,
                        ret |-> call_get_color_state(traffic_light, axis).ret]>>
    /\ UNCHANGED <<use_drl, frame_count, shown, world, aside>>

InitAPI ==
    /\ traffic_light = TrafficLight_init
    /\ use_drl = FALSE
    /\ frame_count = 0
    /\ calls = <<>>
    /\ shown = 0
    /\ NoAgents

NextAPI == CallUpdate \/ CallApplyAction \/ CallSetEmergencyMode \/ CallGetColorState

SpecAPI == InitAPI /\ [][NextAPI]_vars

(***************************************************************************)
(* SpecCycle: the TrafficLight object under every sequence of calls in     *)
(* which set_emergency_mode is only ever called with active = False        *)
(***************************************************************************)
CallSetEmergencyModeOff ==
    /\ \E direction \in Direction \cup {NoDirection} :
         /\ traffic_light' = set_emergency_mode(traffic_light, FALSE, direction)
         /\ calls' = <<Call("set_emergency_mode", <<FALSE, direction>>,
                            set_emergency_mode(traffic_light, FALSE, direction))>>
    /\ UNCHANGED <<use_drl, frame_count, shown, world, aside>>

NextCycle == CallUpdate \/ CallApplyAction \/ CallSetEmergencyModeOff

SpecCycle == InitAPI /\ [][NextCycle]_vars

(***************************************************************************)
(* TrafficSimulation.update, steps 1 to 3: the signal step of a tick       *)
(***************************************************************************)
NoEmergency == [present |-> FALSE, origin |-> NoDirection]

Last(s) == s[Len(s)]

\* The light after a sequence of calls made on tl.
After(tl, cs) == IF cs = <<>> THEN tl ELSE Last(cs).post

\* _execute_ai_control: agent.remember, agent.train() with its default batch size,
\* agent.act on a state of one row, then apply_action of the action act returned.
\* The calls on the agent leave the light as it is.
execute_ai_control(tl, action) ==
    <<Call("remember", <<>>, tl),
      Call("train", <<32>>, tl),
      [op |-> "act", args |-> <<<<1, 3>>>>, post |-> tl, ret |-> action],
      Call("apply_action", <<action>>, apply_action(tl, action))>>

\* The regulatory logic with the greedy update called in DRL mode too
regulatory_logic_always_update(tl, drl, queues, emergency_data) ==
    IF emergency_data.present
    THEN <<Call("set_emergency_mode", <<TRUE, emergency_data.origin>>,
                set_emergency_mode(tl, TRUE, emergency_data.origin))>>
    ELSE LET tl1 == set_emergency_mode(tl, FALSE, NoDirection) IN
         <<Call("set_emergency_mode", <<FALSE, NoDirection>>, tl1),
           Call("update", <<queues>>, TrafficLight_update(tl1, queues))>>

\* Step 3 of TrafficSimulation.update (Regulatory Logic)
regulatory_logic(tl, drl, queues, emergency_data) ==
    IF emergency_data.present
    THEN <<Call("set_emergency_mode", <<TRUE, emergency_data.origin>>,
                set_emergency_mode(tl, TRUE, emergency_data.origin))>>
    ELSE LET tl1 == set_emergency_mode(tl, FALSE, NoDirection) IN
         <<Call("set_emergency_mode", <<FALSE, NoDirection>>, tl1)>> \o
         (IF ~drl \/ tl1.state \in {"NS_YELLOW", "EW_YELLOW"}
          THEN <<Call("update", <<queues>>, TrafficLight_update(tl1, queues))>>
          ELSE <<Call("timer += 1", <<>>, [tl1 EXCEPT !.timer = tl1.timer + 1])>>)

\* Steps 2 and 3 of TrafficSimulation.update in the tick numbered frame: the calls
\* made on the light, in order.
control_tier(tl, drl, frame, queues, emergency_data, action) ==
    LET ai == IF drl /\ ~emergency_data.present /\ frame % 60 = 0
              THEN execute_ai_control(tl, action)
              ELSE <<>>
    IN ai \o regulatory_logic(After(tl, ai), drl, queues, emergency_data)

\* The ticks the present phase has been published to the agents since it was
\* entered or, if later, since the emergency override last forced it.
Shown(tl, post, emergency_data, n) ==
    IF post.state # tl.state \/ emergency_data.present THEN 1 ELSE n + 1

(***************************************************************************)
(* SpecCtl: the signal step tick after tick, its inputs drawn from sets    *)
(***************************************************************************)
EmergencyInputs ==
    {NoEmergency} \cup {[present |-> TRUE, origin |-> d] : d \in Direction}

\* What act can return in a tick: an action is asked for only on the policy's cadence.
ActionInputs(drl, frame, emergency_data) ==
    IF drl /\ ~emergency_data.present /\ frame % 60 = 0 THEN {0, 1} ELSE {0}

SignalTick ==
    /\ frame_count < MaxFrameCtl
    /\ \E queues \in QueueInputs, emergency_data \in EmergencyInputs :
       \E action \in ActionInputs(use_drl, frame_count + 1, emergency_data) :
         LET cs == control_tier(traffic_light, use_drl, frame_count + 1,
                                queues, emergency_data, action)
         IN /\ traffic_light' = Last(cs).post
            /\ calls' = cs
            /\ shown' = Shown(traffic_light, Last(cs).post, emergency_data, shown)
    /\ frame_count' = frame_count + 1
    /\ UNCHANGED <<use_drl, world, aside>>

InitCtl ==
    /\ traffic_light = TrafficLight_init
    /\ use_drl \in BOOLEAN
    /\ frame_count = 0
    /\ calls = <<>>
    /\ shown = 0
    /\ NoAgents

NextCtl == SignalTick

SpecCtl == InitCtl /\ [][NextCtl]_vars

(***************************************************************************)
(* Configuration of the agents (src/src/config.py). The program's floats   *)
(* (positions, speeds, look-ahead lengths) are held as integers counting   *)
(* 1/SCALE: the arithmetic of the model is exact decimal arithmetic, the   *)
(* results of divisions and square roots truncated to 1/SCALE.             *)
(***************************************************************************)
SCALE == 100
WIDTH == 800
HEIGHT == 800
FPS == 60
CAR_SPEED == 3
PEDESTRIAN_SPEED == 1
SPAWN_RATE == 150
PEDESTRIAN_SPAWN_RATE == 180
SAFE_DISTANCE == 45
LANE_WIDTH == 60
ROAD_WIDTH == LANE_WIDTH * 2
INTERSECTION_CENTER == WIDTH \div 2
OFFSET == LANE_WIDTH \div 2
STOP_MARGIN == ROAD_WIDTH \div 2 + 20
CW_OFFSET == 60
CW_WIDTH == 40
RAYCAST_MIN_DIST == 12
SENSOR_WIDTH_PADDING == 30
SAFE_HALT_DISTANCE == 40
ACCELERATION_RATE == SCALE \div 10           \* 0.1
DECELERATION_RATE == (15 * SCALE) \div 100   \* 0.15
SNAP_EPSILON == (5 * SCALE) \div 100         \* 0.05, the literal of _apply_dynamics
\* BRAKING_TIME * FPS * STOPPING_DISTANCE_BUFFER = 1.5 * 60 * 1.2
LOOK_AHEAD_FACTOR == (15 * FPS * 12) \div 100
\* PATIENCE_THRESHOLD = 3.0 seconds, in the unit 0.5 / FPS that patience is kept in
PATIENCE_THRESHOLD == 3 * FPS * 2
ALIGNMENT_DIST == STOP_MARGIN + CW_OFFSET - (CW_WIDTH \div 2)

\* LANE_POSITIONS[origin]: where a vehicle of the lane starts, and its heading
LANE_POSITIONS(origin) ==
    CASE origin = "N" -> [x |-> INTERSECTION_CENTER - OFFSET, y |-> -50, dir |-> <<0, 1>>]
      [] origin = "S" -> [x |-> INTERSECTION_CENTER + OFFSET, y |-> HEIGHT + 50, dir |-> <<0, -1>>]
      [] origin = "E" -> [x |-> WIDTH + 50, y |-> INTERSECTION_CENTER - OFFSET, dir |-> <<-1, 0>>]
      [] origin = "W" -> [x |-> -50, y |-> INTERSECTION_CENTER + OFFSET, dir |-> <<1, 0>>]

STOP_LINES(origin) ==
    IF origin \in {"N", "W"} THEN INTERSECTION_CENTER - STOP_MARGIN
    ELSE INTERSECTION_CENTER + STOP_MARGIN

CORNER_TL == <<INTERSECTION_CENTER - ALIGNMENT_DIST, INTERSECTION_CENTER - ALIGNMENT_DIST>>
CORNER_TR == <<INTERSECTION_CENTER + ALIGNMENT_DIST, INTERSECTION_CENTER - ALIGNMENT_DIST>>
CORNER_BL == <<INTERSECTION_CENTER - ALIGNMENT_DIST, INTERSECTION_CENTER + ALIGNMENT_DIST>>
CORNER_BR == <<INTERSECTION_CENTER + ALIGNMENT_DIST, INTERSECTION_CENTER + ALIGNMENT_DIST>>

(***************************************************************************)
(* Numbers and rectangles (Python's int, min, max, math.sqrt; pygame.Rect) *)
(***************************************************************************)
Min(a, b) == IF a <= b THEN a ELSE b
Max(a, b) == IF a >= b THEN a ELSE b
Abs(a) == IF a >= 0 THEN a ELSE -a

\* int(f) of a float held in 1/SCALE: truncation toward zero
ToInt(f) == IF f >= 0 THEN f \div SCALE ELSE -((-f) \div SCALE)

\* The largest r in lo..hi with r * r <= n (lo * lo <= n)
RECURSIVE SqrtIn(_, _, _)
SqrtIn(n, lo, hi) ==
    IF lo >= hi THEN lo
    ELSE LET mid == (lo + hi + 1) \div 2 IN
         IF mid * mid <= n THEN SqrtIn(n, mid, hi) ELSE SqrtIn(n, lo, mid - 1)

\* math.sqrt(dx*dx + dy*dy) of whole numbers dx, dy, in 1/SCALE
Hypot(dx, dy) == SqrtIn((dx * dx + dy * dy) * SCALE * SCALE, 0, (Abs(dx) + Abs(dy)) * SCALE)

Rect(x, y, w, h) == [x |-> x, y |-> y, w |-> w, h |-> h]
NoRect == Rect(0, 0, 0, 0)

inflate(r, dx, dy) == Rect(r.x - dx \div 2, r.y - dy \div 2, r.w + dx, r.h + dy)

colliderect(a, b) ==
    /\ a.w > 0 /\ a.h > 0 /\ b.w > 0 /\ b.h > 0
    /\ a.x < b.x + b.w /\ b.x < a.x + a.w
    /\ a.y < b.y + b.h /\ b.y < a.y + a.h

collidepoint(r, p) ==
    /\ r.x <= p[1] /\ p[1] < r.x + r.w
    /\ r.y <= p[2] /\ p[2] < r.y + r.h

center(r) == <<r.x + r.w \div 2, r.y + r.h \div 2>>

\* The junction box of _update_entities and the intersection of _is_intersection_blocked
Intersection ==
    Rect(INTERSECTION_CENTER - ROAD_WIDTH \div 2, INTERSECTION_CENTER - ROAD_WIDTH \div 2,
         ROAD_WIDTH, ROAD_WIDTH)
JunctionBox == inflate(Intersection, 20, 20)

(***************************************************************************)
(* Pedestrian (src/src/entities/pedestrian.py)                             *)
(***************************************************************************)
DESPAWN_TIME == 1    \* seconds

Sign(a) == IF a > 0 THEN 1 ELSE IF a < 0 THEN -1 ELSE 0

\* Pedestrian.__init__. Start and target are whole pixels and differ along one axis
\* (the jitter is added to both), so the unit vector (dx / dist, dy / dist) has the
\* components -1, 0, 1.
Pedestrian_init(start_pos, target_pos, crossing_axis, control_axis) ==
    [x |-> start_pos[1], y |-> start_pos[2],
     target_x |-> target_pos[1], target_y |-> target_pos[2],
     crossing_axis |-> crossing_axis, control_axis |-> control_axis,
     walking |-> FALSE, done |-> FALSE, state |-> "WALKING", down_timer |-> 0,
     dir_x |-> Sign(target_pos[1] - start_pos[1]),
     dir_y |-> Sign(target_pos[2] - start_pos[2])]

\* Pedestrian.rect: __init__ puts it around (int(x), int(y)), update centres it there
PRect(p) == Rect(p.x - 8, p.y - 8, 16, 16)

\* Pedestrian.hit(): down_timer is the clock's reading
hit(p) ==
    IF p.state # "DOWN" THEN [p EXCEPT !.state = "DOWN", !.down_timer = ticks] ELSE p

\* The traffic_light argument None
NoLight == [state |-> "None", timer |-> 0, emergency_mode |-> FALSE]

\* Pedestrian.update with a pedestrian that is DOWN never done
Pedestrian_update_stays_down(p, tl) ==
    IF p.done \/ p.state = "DOWN" THEN p
    ELSE LET walking == p.walking
                        \/ (tl # NoLight
                            /\ get_color_state(tl, p.control_axis) = COLOR_RED_ON)
         IN IF ~walking THEN p
            ELSE LET x == p.x + p.dir_x * PEDESTRIAN_SPEED
                     y == p.y + p.dir_y * PEDESTRIAN_SPEED
                 IN [p EXCEPT !.walking = TRUE, !.x = x, !.y = y,
                              !.done = Hypot(p.target_x - x, p.target_y - y) < 10 * SCALE]

\* Pedestrian.update that starts the walk whenever the light is not green for the
\* controlling axis, or is missing
Pedestrian_update_jaywalks(p, tl) ==
    IF p.done THEN p
    ELSE IF p.state = "DOWN"
    THEN [p EXCEPT !.done = (ticks - p.down_timer) > DESPAWN_TIME * 1000]
    ELSE LET walking == p.walking
                        \/ tl = NoLight
                        \/ get_color_state(tl, p.control_axis) # COLOR_GREEN_ON
         IN IF ~walking THEN p
            ELSE LET x == p.x + p.dir_x * PEDESTRIAN_SPEED
                     y == p.y + p.dir_y * PEDESTRIAN_SPEED
                 IN [p EXCEPT !.walking = TRUE, !.x = x, !.y = y,
                              !.done = Hypot(p.target_x - x, p.target_y - y) < 10 * SCALE]

\* Pedestrian.update(traffic_light, all_peds, all_cars); the clock is read for a
\* pedestrian that is DOWN
Pedestrian_update(p, tl) ==
    IF p.done THEN p
    ELSE IF p.state = "DOWN"
    THEN [p EXCEPT !.done = (ticks - p.down_timer) > DESPAWN_TIME * 1000]
    ELSE LET walking == p.walking
                        \/ (tl # NoLight
                            /\ get_color_state(tl, p.control_axis) = COLOR_RED_ON) IN
         IF ~walking THEN p
         ELSE LET x == p.x + p.dir_x * PEDESTRIAN_SPEED
                  y == p.y + p.dir_y * PEDESTRIAN_SPEED
              IN [p EXCEPT !.walking = TRUE, !.x = x, !.y = y,
                           !.done = Hypot(p.target_x - x, p.target_y - y) < 10 * SCALE]

\* The routes of _spawn_pedestrian: targets[base_start], as <<start, target,
\* crossing_axis, control_axis>>
PedestrianRoutes ==
    {<<CORNER_TL, CORNER_TR, "EW", "NS">>, <<CORNER_TL, CORNER_BL, "NS", "EW">>,
     <<CORNER_TR, CORNER_TL, "EW", "NS">>, <<CORNER_TR, CORNER_BR, "NS", "EW">>,
     <<CORNER_BL, CORNER_TL, "NS", "EW">>, <<CORNER_BL, CORNER_BR, "EW", "NS">>,
     <<CORNER_BR, CORNER_TR, "NS", "EW">>, <<CORNER_BR, CORNER_BL, "EW", "NS">>}

\* _spawn_pedestrian with the route and the jitter that random drew
spawn_pedestrian(peds, route, jx, jy) ==
    Append(peds, Pedestrian_init(<<route[1][1] + jx, route[1][2] + jy>>,
                                 <<route[2][1] + jx, route[2][2] + jy>>,
                                 route[3], route[4]))

(***************************************************************************)
(* Vehicle (src/src/entities/vehicle.py)                                   *)
(***************************************************************************)
\* Vehicle.__init__; id stands for the identity of the object
Vehicle_init(id, origin, is_emergency) ==
    [id |-> id, origin |-> origin, is_emergency |-> is_emergency,
     x |-> LANE_POSITIONS(origin).x * SCALE, y |-> LANE_POSITIONS(origin).y * SCALE,
     current_speed |-> CAR_SPEED * SCALE, target_speed |-> CAR_SPEED * SCALE,
     stopped |-> FALSE, patience |-> 0, ignore_npc |-> FALSE,
     cached_sensor_rect |-> NoRect, last_look_ahead |-> 0]

direction_vector(v) == LANE_POSITIONS(v.origin).dir
width(v) == IF direction_vector(v)[1] # 0 THEN 40 ELSE 20
height(v) == IF direction_vector(v)[1] # 0 THEN 20 ELSE 40

\* Vehicle.rect: topleft is (int(x), int(y)) from __init__ on and after every step
VRect(v) == Rect(ToInt(v.x), ToInt(v.y), width(v), height(v))

get_dist_to_stop_line(v) ==
    LET r == VRect(v) sl == STOP_LINES(v.origin) IN
    CASE v.origin = "N" -> sl - (r.y + r.h)
      [] v.origin = "S" -> r.y - sl
      [] v.origin = "E" -> r.x - sl
      [] v.origin = "W" -> sl - (r.x + r.w)

get_dist_to_crosswalk_entrance(v) ==
    LET r == VRect(v) sl == STOP_LINES(v.origin) IN
    CASE v.origin = "N" -> (sl - CW_OFFSET) - (r.y + r.h)
      [] v.origin = "S" -> r.y - (sl + CW_OFFSET)
      [] v.origin = "E" -> r.x - (sl + CW_OFFSET)
      [] v.origin = "W" -> (sl - CW_OFFSET) - (r.x + r.w)

\* _get_dist_between(car1, car2), by the origin of the vehicle that asks
get_dist_between(v, car1, car2) ==
    LET r1 == VRect(car1) r2 == VRect(car2) IN
    CASE v.origin = "N" -> r2.y - (r1.y + r1.h)
      [] v.origin = "S" -> r1.y - (r2.y + r2.h)
      [] v.origin = "W" -> r2.x - (r1.x + r1.w)
      [] v.origin = "E" -> r1.x - (r2.x + r2.w)

would_stop_on_crosswalk(v, dist_to_car) ==
    LET stop_pos_sl == get_dist_to_stop_line(v) - dist_to_car IN
    (CW_OFFSET - CW_WIDTH - 10) < stop_pos_sl /\ stop_pos_sl < (CW_OFFSET + 10)

\* The sensor rectangle _get_optimized_sensor_rect builds for a look-ahead length
\* (in 1/SCALE; pygame.Rect truncates it to whole pixels)
sensor_rect(v, length) ==
    LET r == VRect(v) len == ToInt(length) IN
    CASE v.origin = "W" ->
           Rect(r.x + r.w + RAYCAST_MIN_DIST, r.y - SENSOR_WIDTH_PADDING,
                len, height(v) + 2 * SENSOR_WIDTH_PADDING)
      [] v.origin = "E" ->
           Rect(r.x - RAYCAST_MIN_DIST - len, r.y - SENSOR_WIDTH_PADDING,
                len, height(v) + 2 * SENSOR_WIDTH_PADDING)
      [] v.origin = "N" ->
           Rect(r.x - SENSOR_WIDTH_PADDING, r.y + r.h + RAYCAST_MIN_DIST,
                width(v) + 2 * SENSOR_WIDTH_PADDING, len)
      [] v.origin = "S" ->
           Rect(r.x - SENSOR_WIDTH_PADDING, r.y - RAYCAST_MIN_DIST - len,
                width(v) + 2 * SENSOR_WIDTH_PADDING, len)

\* _get_optimized_sensor_rect(length): the vehicle with its cache as the call leaves
\* it. The cached rectangle is returned as it is while the length is the one it was
\* built for, wherever the vehicle has moved since.
get_optimized_sensor_rect(v, length) ==
    IF v.cached_sensor_rect # NoRect /\ v.last_look_ahead = length THEN v
    ELSE [v EXCEPT !.last_look_ahead = length,
                   !.cached_sensor_rect = sensor_rect(v, length)]

\* The position of id in a sequence of ids, counted from 0; -1 if it is not there
RECURSIVE IndexFrom(_, _, _)
IndexFrom(ids, id, i) ==
    IF i > Len(ids) THEN -1
    ELSE IF ids[i] = id THEN i - 1
    ELSE IndexFrom(ids, id, i + 1)

index(ids, id) == IndexFrom(ids, id, 1)

axis_of(origin) == IF origin \in {"N", "S"} THEN "NS" ELSE "EW"

\* The loop of _check_pedestrians from pedestrian i on: the speed it returns
RECURSIVE scan_pedestrians(_, _, _, _, _, _)
scan_pedestrians(v, scan_rect, look_ahead, peds, i, min_v) ==
    IF i > Len(peds) THEN min_v
    ELSE LET p == peds[i] IN
         IF p.done \/ p.state = "DOWN" \/ ~colliderect(scan_rect, inflate(PRect(p), 20, 20))
         THEN scan_pedestrians(v, scan_rect, look_ahead, peds, i + 1, min_v)
         ELSE LET c == center(VRect(v))
                  dist == Hypot(c[1] - p.x, c[2] - p.y)
              IN IF dist < SAFE_HALT_DISTANCE * SCALE THEN 0
                 ELSE LET yield == (CAR_SPEED * SCALE * (dist - SAFE_HALT_DISTANCE * SCALE))
                                     \div look_ahead
                      IN scan_pedestrians(v, scan_rect, look_ahead, peds, i + 1,
                                          Min(min_v, Max(0, yield)))

\* _check_pedestrians(pedestrians): the safe speed, and the vehicle with the sensor
\* cache as the call leaves it
check_pedestrians(v, peds) ==
    IF v.is_emergency \/ v.ignore_npc \/ peds = <<>>
    THEN [speed |-> CAR_SPEED * SCALE, vehicle |-> v]
    ELSE LET look_ahead == Max(50 * SCALE, v.current_speed * LOOK_AHEAD_FACTOR)
             v1 == get_optimized_sensor_rect(v, look_ahead)
         IN [speed |-> scan_pedestrians(v1, v1.cached_sensor_rect, look_ahead, peds, 1,
                                        CAR_SPEED * SCALE),
             vehicle |-> v1]

\* _is_exit_clear(all_cars)
is_exit_clear(v, all_cars) ==
    LET r == VRect(v)
        cx == INTERSECTION_CENTER
        rw == ROAD_WIDTH \div 2
        exit_rect ==
          CASE v.origin = "W" -> Rect(cx + rw, r.y, 60, height(v))
            [] v.origin = "E" -> Rect(cx - rw - 60, r.y, 60, height(v))
            [] v.origin = "N" -> Rect(r.x, cx + rw, width(v), 60)
            [] v.origin = "S" -> Rect(r.x, cx - rw - 60, width(v), 60)
    IN \A j \in DOMAIN all_cars :
         all_cars[j].id # v.id => ~colliderect(VRect(all_cars[j]), inflate(exit_rect, 10, 10))

\* _is_intersection_blocked(all_cars)
is_intersection_blocked(v, all_cars) ==
    IF ~colliderect(inflate(VRect(v), 30, 30), Intersection) THEN FALSE
    ELSE IF collidepoint(Intersection, center(VRect(v))) THEN FALSE
    ELSE \E j \in DOMAIN all_cars :
           /\ all_cars[j].id # v.id
           /\ colliderect(VRect(all_cars[j]), Intersection)
           /\ axis_of(all_cars[j].origin) # axis_of(v.origin)

\* Rule 1 of _check_traffic_rules applied to emergency vehicles too
signal_stops_all(v, tl) ==
    /\ tl # NoLight
    /\ get_color_state(tl, axis_of(v.origin)) # COLOR_GREEN_ON
    /\ \/ (5 < get_dist_to_stop_line(v) /\ get_dist_to_stop_line(v) < 50)
       \/ (5 < get_dist_to_crosswalk_entrance(v) /\ get_dist_to_crosswalk_entrance(v) < 50)

\* Rule 1 of _check_traffic_rules: the signal stops the vehicle
signal_stops(v, tl) ==
    /\ ~v.is_emergency
    /\ tl # NoLight
    /\ get_color_state(tl, axis_of(v.origin)) # COLOR_GREEN_ON
    /\ \/ (5 < get_dist_to_stop_line(v) /\ get_dist_to_stop_line(v) < 50)
       \/ (5 < get_dist_to_crosswalk_entrance(v) /\ get_dist_to_crosswalk_entrance(v) < 50)

\* The admission window of rule 2
in_window(v) == -20 < get_dist_to_stop_line(v) /\ get_dist_to_stop_line(v) < 60

\* Rule 2 of _check_traffic_rules with the membership test left out: the vehicle is
\* appended on every call made inside the window
register_again(v, ledger) ==
    IF in_window(v) THEN Append(ledger, v.id) ELSE ledger

\* Rule 2 of _check_traffic_rules: the ledger after the registration
register(v, ledger) ==
    IF in_window(v) /\ index(ledger, v.id) = -1 THEN Append(ledger, v.id) ELSE ledger

\* Rule 4 of _check_traffic_rules: a vehicle of the same lane less than 50 ahead
follows(v, all_cars) ==
    \E j \in DOMAIN all_cars :
      /\ all_cars[j].id # v.id
      /\ all_cars[j].origin = v.origin
      /\ 0 < get_dist_between(v, v, all_cars[j])
      /\ get_dist_between(v, v, all_cars[j]) < 50

\* _check_traffic_rules without its first statement, the answer to a missing light
check_traffic_rules_unguarded(v, tl, all_cars, ledger) ==
    IF signal_stops(v, tl)
    THEN [speed |-> 0, ledger |-> ledger, rule |-> "signal"]
    ELSE LET l1 == register(v, ledger)
             d == get_dist_to_stop_line(v)
         IN IF in_window(v) /\ index(l1, v.id) > 1
            THEN [speed |-> 0, ledger |-> l1, rule |-> "ledger"]
            ELSE IF -10 < d /\ d < 20 /\ ~is_exit_clear(v, all_cars)
            THEN [speed |-> 0, ledger |-> l1, rule |-> "exit"]
            ELSE IF follows(v, all_cars)
            THEN [speed |-> 0, ledger |-> l1, rule |-> "spacing"]
            ELSE IF is_intersection_blocked(v, all_cars)
            THEN [speed |-> 0, ledger |-> l1, rule |-> "blocked"]
            ELSE [speed |-> CAR_SPEED * SCALE, ledger |-> l1, rule |-> "none"]

\* _check_traffic_rules(traffic_light, all_cars, sim): the speed the rules allow, the
\* ledger as the call leaves it, and the rule that decided
check_traffic_rules(v, tl, all_cars, ledger) ==
    IF tl = NoLight /\ ~v.is_emergency
    THEN [speed |-> 0, ledger |-> ledger, rule |-> "no light"]
    ELSE IF signal_stops(v, tl)
    THEN [speed |-> 0, ledger |-> ledger, rule |-> "signal"]
    ELSE LET l1 == register(v, ledger)
             d == get_dist_to_stop_line(v)
         IN IF in_window(v) /\ index(l1, v.id) > 1
            THEN [speed |-> 0, ledger |-> l1, rule |-> "ledger"]
            ELSE IF -10 < d /\ d < 20 /\ ~is_exit_clear(v, all_cars)
            THEN [speed |-> 0, ledger |-> l1, rule |-> "exit"]
            ELSE IF follows(v, all_cars)
            THEN [speed |-> 0, ledger |-> l1, rule |-> "spacing"]
            ELSE IF is_intersection_blocked(v, all_cars)
            THEN [speed |-> 0, ledger |-> l1, rule |-> "blocked"]
            ELSE [speed |-> CAR_SPEED * SCALE, ledger |-> l1, rule |-> "none"]

\* _update_patience that lets the vehicle go, at the speed the rules allow, in the
\* tick in which its patience runs out
update_patience_resumes(v, v_ped, v_rules, peds) ==
    LET patience == IF v_ped = 0 /\ v_rules > 0 /\ v.current_speed = 0
                    THEN v.patience + 2
                    ELSE Max(0, v.patience - 1)
        ignore_npc == v.ignore_npc \/ patience > PATIENCE_THRESHOLD
        touching == \E i \in DOMAIN peds :
                      colliderect(inflate(VRect(v), 10, 10), PRect(peds[i]))
    IN IF ignore_npc /\ ~touching
       THEN [v EXCEPT !.ignore_npc = FALSE, !.patience = 0, !.target_speed = v_rules]
       ELSE [v EXCEPT !.ignore_npc = ignore_npc, !.patience = patience]

\* _update_patience that leaves ignore mode only by the patience running down
update_patience_sticky(v, v_ped, v_rules, peds) ==
    [v EXCEPT !.ignore_npc = v.ignore_npc
                \/ (IF v_ped = 0 /\ v_rules > 0 /\ v.current_speed = 0
                    THEN v.patience + 2
                    ELSE Max(0, v.patience - 1)) > PATIENCE_THRESHOLD,
              !.patience = IF v_ped = 0 /\ v_rules > 0 /\ v.current_speed = 0
                           THEN v.patience + 2
                           ELSE Max(0, v.patience - 1)]

\* _update_patience that only counts: the flag is never set and the patience never
\* reset
update_patience_unarmed(v, v_ped, v_rules, peds) ==
    [v EXCEPT !.patience = IF v_ped = 0 /\ v_rules > 0 /\ v.current_speed = 0
                           THEN v.patience + 2
                           ELSE Max(0, v.patience - 1)]

\* _update_patience(v_ped, v_rules, pedestrians); patience counts units of 0.5 / FPS
update_patience(v, v_ped, v_rules, peds) ==
    LET patience == IF v_ped = 0 /\ v_rules > 0 /\ v.current_speed = 0
                    THEN v.patience + 2
                    ELSE Max(0, v.patience - 1)
        ignore_npc == v.ignore_npc \/ patience > PATIENCE_THRESHOLD
        touching == \E i \in DOMAIN peds :
                      colliderect(inflate(VRect(v), 10, 10), PRect(peds[i]))
    IN IF ignore_npc /\ ~touching
       THEN [v EXCEPT !.ignore_npc = FALSE, !.patience = 0]
       ELSE [v EXCEPT !.ignore_npc = ignore_npc, !.patience = patience]

\* _apply_dynamics with the interpolation not limited by the target speed
apply_dynamics_overshoot(v) ==
    LET speed == IF v.current_speed < v.target_speed
                 THEN v.current_speed + ACCELERATION_RATE
                 ELSE IF v.current_speed > v.target_speed
                 THEN v.current_speed - DECELERATION_RATE
                 ELSE v.current_speed
    IN IF speed < SNAP_EPSILON
       THEN [v EXCEPT !.current_speed = 0, !.stopped = TRUE]
       ELSE [v EXCEPT !.current_speed = speed, !.stopped = FALSE,
                      !.x = v.x + direction_vector(v)[1] * speed,
                      !.y = v.y + direction_vector(v)[2] * speed]

\* _apply_dynamics that advances the position by the target speed
apply_dynamics_by_target(v) ==
    LET speed == IF v.current_speed < v.target_speed
                 THEN Min(v.target_speed, v.current_speed + ACCELERATION_RATE)
                 ELSE IF v.current_speed > v.target_speed
                 THEN Max(v.target_speed, v.current_speed - DECELERATION_RATE)
                 ELSE v.current_speed
    IN IF speed < SNAP_EPSILON
       THEN [v EXCEPT !.current_speed = 0, !.stopped = TRUE]
       ELSE [v EXCEPT !.current_speed = speed, !.stopped = FALSE,
                      !.x = v.x + direction_vector(v)[1] * v.target_speed,
                      !.y = v.y + direction_vector(v)[2] * v.target_speed]

\* _apply_dynamics()
apply_dynamics(v) ==
    LET speed == IF v.current_speed < v.target_speed
                 THEN Min(v.target_speed, v.current_speed + ACCELERATION_RATE)
                 ELSE IF v.current_speed > v.target_speed
                 THEN Max(v.target_speed, v.current_speed - DECELERATION_RATE)
                 ELSE v.current_speed
    IN IF speed < SNAP_EPSILON
       THEN [v EXCEPT !.current_speed = 0, !.stopped = TRUE]
       ELSE [v EXCEPT !.current_speed = speed, !.stopped = FALSE,
                      !.x = v.x + direction_vector(v)[1] * speed,
                      !.y = v.y + direction_vector(v)[2] * speed]

\* The end of move: the target speed is the lower of the two layers' speeds, then
\* _update_patience and _apply_dynamics. ped and rules are what the two layers returned.
resolve(ped, rules, peds) ==
    [vehicle |-> apply_dynamics(
                   update_patience([ped.vehicle EXCEPT
                                      !.target_speed = Min(ped.speed, rules.speed)],
                                   ped.speed, rules.speed, peds)),
     ledger |-> rules.ledger,
     v_ped |-> ped.speed, v_rules |-> rules.speed, rule |-> rules.rule]

\* The rule layer of move, on the vehicle as the pedestrian layer left it
rule_layer(ped, tl, all_cars, peds, ledger) ==
    resolve(ped, check_traffic_rules(ped.vehicle, tl, all_cars, ledger), peds)

\* Vehicle.move(traffic_light, all_cars, pedestrians, sim) of the vehicle all_cars[i]:
\* the vehicle and the ledger as the call leaves them, with the two layers' speeds
move(i, tl, all_cars, peds, ledger) ==
    rule_layer(check_pedestrians(all_cars[i], peds), tl, all_cars, peds, ledger)

\* The number of vehicles that have entered the admission window so far
Arrived(ent) == Cardinality({k \in DOMAIN ent : ent[k] > 0})

\* The simulation after a move that also brings the vehicle behind it in the list to
\* a halt
moved_pushing(w, i, v, m) ==
    [cars |-> [j \in DOMAIN w.cars |->
                 IF j = i THEN m.vehicle
                 ELSE IF j = i + 1
                 THEN [w.cars[j] EXCEPT !.current_speed = 0, !.stopped = TRUE]
                 ELSE w.cars[j]],
     ledger |-> m.ledger,
     moves |-> Append(w.moves,
                      [id |-> v.id, was |-> v, dist |-> get_dist_to_stop_line(v),
                       v_ped |-> m.v_ped, v_rules |-> m.v_rules, rule |-> m.rule,
                       before |-> w.ledger, ledger |-> m.ledger,
                       index |-> index(m.ledger, v.id),
                       vehicle |-> m.vehicle]),
     entered |-> IF in_window(v) /\ w.entered[v.id] = 0
                 THEN [w.entered EXCEPT ![v.id] = Arrived(w.entered) + 1]
                 ELSE w.entered]

\* The simulation after the move m of the vehicle v = w.cars[i]: the vehicle and the
\* ledger as the call left them, the call added to the log of the tick, and the
\* vehicle's arrival stamped if it made the move inside the admission window
moved(w, i, v, m) ==
    [cars |-> [w.cars EXCEPT ![i] = m.vehicle],
     ledger |-> m.ledger,
     moves |-> Append(w.moves,
                      [id |-> v.id, was |-> v, dist |-> get_dist_to_stop_line(v),
                       v_ped |-> m.v_ped, v_rules |-> m.v_rules, rule |-> m.rule,
                       before |-> w.ledger, ledger |-> m.ledger,
                       index |-> index(m.ledger, v.id),
                       vehicle |-> m.vehicle]),
     entered |-> IF in_window(v) /\ w.entered[v.id] = 0
                 THEN [w.entered EXCEPT ![v.id] = Arrived(w.entered) + 1]
                 ELSE w.entered]

\* The loop "for c in self.cars: c.move(...)" of _update_entities from vehicle i on.
\* w is [cars, ledger, moves, entered]: each call sees the vehicles and the ledger as
\* the calls before it left them.
RECURSIVE move_all(_, _, _, _)
move_all(w, i, tl, peds) ==
    IF i > Len(w.cars) THEN w
    ELSE move_all(moved(w, i, w.cars[i], move(i, tl, w.cars, peds, w.ledger)),
                  i + 1, tl, peds)

\* The bounds of the map drawn at the far side of the intersection
in_bounds_near(v) ==
    /\ -100 * SCALE <= v.x /\ v.x <= (INTERSECTION_CENTER + ROAD_WIDTH \div 2) * SCALE
    /\ -100 * SCALE <= v.y /\ v.y <= (INTERSECTION_CENTER + ROAD_WIDTH \div 2) * SCALE

\* The test of the removal in _update_entities: the vehicle is on the map or less
\* than 100 pixels off it
in_bounds(v) ==
    /\ -100 * SCALE <= v.x /\ v.x <= (WIDTH + 100) * SCALE
    /\ -100 * SCALE <= v.y /\ v.y <= (HEIGHT + 100) * SCALE

\* The pedestrians' part of _update_entities: every pedestrian's update, then the
\* removal of those that are done
update_pedestrians(peds, tl) ==
    LET not_done(p) == ~p.done
    IN SelectSeq([i \in DOMAIN peds |-> Pedestrian_update(peds[i], tl)], not_done)

\* The purge of the ledger: the members that are in the list of vehicles and whose
\* rect collides with the junction box stay
purge(ledger, cs) ==
    LET resident(id) == \E j \in DOMAIN cs :
                          cs[j].id = id /\ colliderect(VRect(cs[j]), JunctionBox)
    IN SelectSeq(ledger, resident)

\* The removal of the vehicles that left the map, after the moves left w
removal(w, peds) ==
    [cars |-> SelectSeq(w.cars, in_bounds), pedestrians |-> peds,
     ledger |-> w.ledger, moves |-> w.moves, entered |-> w.entered]

\* _update_entities(): pedestrians first, then the purge of the ledger, then every
\* vehicle's move, then the removal of the vehicles that left the map
move_and_remove(cs, peds, ledger, ent, tl) ==
    removal(move_all([cars |-> cs, ledger |-> ledger, moves |-> <<>>, entered |-> ent],
                     1, tl, peds),
            peds)

update_entities(cs, peds, ledger, ent, tl) ==
    move_and_remove(cs, update_pedestrians(peds, tl), purge(ledger, cs), ent, tl)

(***************************************************************************)
(* TrafficSimulation: one iteration of run (src/src/simulation.py)         *)
(***************************************************************************)
\* _spawn_emergency_vehicle() with the lane random.choice drew
spawn_emergency_vehicle(w, origin) ==
    [cars |-> Append(w.cars, Vehicle_init(Len(w.entered) + 1, origin, TRUE)),
     entered |-> Append(w.entered, 0)]

\* handle_events(): click is the lane drawn for a click on the emergency button, or
\* NoDirection when the event queue holds no such click
handle_events(w, click) ==
    IF click = NoDirection THEN w ELSE spawn_emergency_vehicle(w, click)

\* The spawn safety validation of spawn_entities
spawn_is_safe(cs, origin) ==
    LET lane == LANE_POSITIONS(origin)
        spawn_rect == inflate(Rect(lane.x, lane.y, 40, 40), SAFE_DISTANCE, SAFE_DISTANCE)
    IN \A j \in DOMAIN cs : ~colliderect(VRect(cs[j]), spawn_rect)

\* Part 1 of spawn_entities() in the frame numbered frame, with the lane and the
\* emergency draw of random
spawn_vehicle(w, frame, origin, is_emer) ==
    IF frame % SPAWN_RATE = 0 /\ spawn_is_safe(w.cars, origin)
    THEN [cars |-> Append(w.cars, Vehicle_init(Len(w.entered) + 1, origin, is_emer)),
          entered |-> Append(w.entered, 0)]
    ELSE w

\* Part 2 of spawn_entities()
spawn_pedestrians(peds, frame, route, jx, jy) ==
    IF frame % PEDESTRIAN_SPAWN_RATE = 0 THEN spawn_pedestrian(peds, route, jx, jy)
    ELSE peds

\* _calculate_queues()
calculate_queues(cs) ==
    [a \in Axis |-> Cardinality({j \in DOMAIN cs : cs[j].stopped /\ axis_of(cs[j].origin) = a})]

\* _check_emergency_vehicles(): the first emergency vehicle of the list
RECURSIVE check_emergency_from(_, _)
check_emergency_from(cs, j) ==
    IF j > Len(cs) THEN NoEmergency
    ELSE IF cs[j].is_emergency THEN [present |-> TRUE, origin |-> cs[j].origin]
    ELSE check_emergency_from(cs, j + 1)

check_emergency_vehicles(cs) == check_emergency_from(cs, 1)

(***************************************************************************)
(* The run loop of TrafficSimulation, as main.py starts it                 *)
(***************************************************************************)
\* The end of update(): what the iteration leaves. cs are the calls the control tier
\* made on the light, u is what _update_entities returned.
publish(cs, u, emergency_data) ==
    /\ traffic_light' = Last(cs).post
    /\ calls' = cs
    /\ shown' = Shown(traffic_light, Last(cs).post, emergency_data, shown)
    /\ cars' = u.cars
    /\ pedestrians' = u.pedestrians
    /\ junction_reservation' = u.ledger
    /\ moves' = u.moves
    /\ entered' = u.entered

\* _update_entities() under the light as the control tier left it
entities(cs, w, peds, emergency_data) ==
    publish(cs,
            update_entities(w.cars, peds, junction_reservation, w.entered, Last(cs).post),
            emergency_data)

\* The control tier of update() with the queues and the emergency data it computed;
\* the policy's action is drawn here
control(w, peds, queues, emergency_data) ==
    \E action \in ActionInputs(use_drl, frame_count + 1, emergency_data) :
       entities(control_tier(traffic_light, use_drl, frame_count + 1,
                             queues, emergency_data, action),
                w, peds, emergency_data)

\* update() on the vehicles w and the pedestrians peds that the spawns left
update(w, peds) ==
    control(w, peds, calculate_queues(w.cars), check_emergency_vehicles(w.cars))

\* One iteration of run(): handle_events(), spawn_entities(), update(). click is the
\* lane drawn for a click on the emergency button (NoDirection: no click in the event
\* queue), vd the lane and the emergency draw of spawn_entities, pd the route and the
\* jitter of _spawn_pedestrian.
Iteration(click, vd, pd) ==
    /\ update(spawn_vehicle(handle_events([cars |-> cars, entered |-> entered], click),
                            frame_count, vd[1], vd[2]),
              spawn_pedestrians(pedestrians, frame_count, pd[1], pd[2], pd[3]))
    /\ clicks' = IF click = NoDirection THEN clicks ELSE clicks + 1
    /\ frame_count' = frame_count + 1
    /\ UNCHANGED <<use_drl, aside>>

\* TrafficSimulation(use_drl=True), the simulation main.py constructs
Init ==
    /\ traffic_light = TrafficLight_init
    /\ use_drl = TRUE
    /\ frame_count = 0
    /\ calls = <<>>
    /\ shown = 0
    /\ NoAgents

(***************************************************************************)
(* Spec: the first seconds of a run, a click or two as the run starts      *)
(***************************************************************************)
MaxFrame == 150      \* iterations of the run loop per run
MaxClicks == 2       \* clicks on the emergency button per run
ClickFrames == 2     \* the clicks fall in the first ClickFrames iterations

\* The jitter random.uniform(-15, 15) draws for a pedestrian's start, in whole pixels
JitterX == {0}
JitterY == {14}

\* The corners random.choice draws for a pedestrian's start
StartCorners == {CORNER_TL, CORNER_BR}

\* What the event queue can hold when handle_events runs: at most one click on the
\* emergency button, with the lane random.choice draws for it
ClickInputs ==
    IF clicks < MaxClicks /\ frame_count < ClickFrames
    THEN Direction \cup {NoDirection} ELSE {NoDirection}

\* The draws of spawn_entities: the lane and the emergency draw of a vehicle, the
\* route and the jitter of a pedestrian; a frame that spawns nothing draws nothing
VehicleDraws ==
    IF frame_count % SPAWN_RATE = 0 THEN Direction \X BOOLEAN ELSE {<<"N", FALSE>>}

PedestrianDraws ==
    IF frame_count % PEDESTRIAN_SPAWN_RATE = 0
    THEN {r \in PedestrianRoutes : r[1] \in StartCorners} \X JitterX \X JitterY
    ELSE {<<<<CORNER_BR, CORNER_TR, "NS", "EW">>, 0, 0>>}

RunIteration ==
    /\ frame_count < MaxFrame
    /\ \E click \in ClickInputs, vd \in VehicleDraws, pd \in PedestrianDraws :
         Iteration(click, vd, pd)

Next == RunIteration

Spec == Init /\ [][Next]_vars

(***************************************************************************)
(* SpecRush: a longer run in which the emergency button is clicked up to   *)
(* four times, in the frames RushFrames, each click drawing any lane; the  *)
(* periodic spawns draw an ordinary vehicle on lane N and the pedestrians  *)
(* the route from CORNER_BR to CORNER_BL                                   *)
(***************************************************************************)
MaxFrameRush == 220     \* iterations of the run loop per run

RushFrames == {1, 38, 53, 67}

RushClickInputs ==
    IF frame_count \in RushFrames THEN Direction \cup {NoDirection} ELSE {NoDirection}

RushIteration ==
    /\ frame_count < MaxFrameRush
    /\ \E click \in RushClickInputs :
         Iteration(click, <<"N", FALSE>>, <<<<CORNER_BR, CORNER_BL, "EW", "NS">>, 0, 14>>)

NextRush == RushIteration

SpecRush == Init /\ [][NextRush]_vars

(***************************************************************************)
(* SpecCross: three seconds of a run in which spawn_entities draws an      *)
(* ordinary vehicle on lane W and a pedestrian going from CORNER_TR to     *)
(* CORNER_BR, over the crosswalk behind the junction on that lane; the     *)
(* clicks are those of Spec, the jitter is drawn from CrossJitter          *)
(***************************************************************************)
MaxFrameCross == 180     \* iterations of the run loop per run
CrossJitter == {-15, 0, 14}

CrossPedestrianDraws ==
    IF frame_count % PEDESTRIAN_SPAWN_RATE = 0
    THEN {<<CORNER_TR, CORNER_BR, "NS", "EW">>} \X CrossJitter \X CrossJitter
    ELSE {<<<<CORNER_TR, CORNER_BR, "NS", "EW">>, 0, 0>>}

CrossIteration ==
    /\ frame_count < MaxFrameCross
    /\ \E click \in ClickInputs, pd \in CrossPedestrianDraws :
         Iteration(click, <<"W", FALSE>>, pd)

NextCross == CrossIteration

SpecCross == Init /\ [][NextCross]_vars


(***************************************************************************)
(* SpecSiren: ten seconds of a run, long enough for the emergency vehicles *)
(* of the first clicks to cross the map and for the green they forced to   *)
(* run out; the clicks are those of Spec, the periodic spawns draw an      *)
(* ordinary vehicle on lane N and the pedestrians of SpecRush              *)
(***************************************************************************)
MaxFrameSiren == 620     \* iterations of the run loop per run

SirenIteration ==
    /\ frame_count < MaxFrameSiren
    /\ \E click \in ClickInputs :
         Iteration(click, <<"N", FALSE>>, <<<<CORNER_BR, CORNER_BL, "EW", "NS">>, 0, 14>>)

NextSiren == SirenIteration

SpecSiren == Init /\ [][NextSiren]_vars
(***************************************************************************)
(* SpecStandoff: _update_entities, tick after tick, for one ordinary       *)
(* vehicle on lane W under a light that an emergency holds at EW_GREEN or  *)
(* at NS_GREEN, with a pedestrian who stands in the roadway ahead of it,   *)
(* or beside it, short of the stop line: the pedestrian waits for RED_ON   *)
(* on the axis of the green, which does not come                           *)
(***************************************************************************)
StandX == 100 .. 104
StandY == {430, 440, 450, 462, 520}

HeldGreen == {"W", "N"}    \* the lane of the emergency that holds the light

standing(x, y, lane) ==
    Pedestrian_init(<<x, y>>, <<x, y + ROAD_WIDTH>>, "NS", axis_of(lane))

InitStandoff ==
    /\ \E x \in StandX, y \in StandY, lane \in HeldGreen :
         /\ traffic_light = set_emergency_mode(TrafficLight_init, TRUE, lane)
         /\ pedestrians = <<standing(x, y, lane)>>
    /\ use_drl = TRUE
    /\ frame_count = 0
    /\ calls = <<>>
    /\ shown = 0
    /\ cars = <<Vehicle_init(1, "W", FALSE)>>
    /\ junction_reservation = <<>>
    /\ moves = <<>>
    /\ entered = <<0>>
    /\ clicks = 0
    /\ ticks = 0
    /\ agent = DQNAgent_init

settle(u) ==
    /\ cars' = u.cars
    /\ pedestrians' = u.pedestrians
    /\ junction_reservation' = u.ledger
    /\ moves' = u.moves
    /\ entered' = u.entered

StandoffTick ==
    /\ cars # <<>>
    /\ settle(update_entities(cars, pedestrians, junction_reservation, entered,
                              traffic_light))
    /\ UNCHANGED <<traffic_light, use_drl, frame_count, calls, shown, clicks, aside>>

NextStandoff == StandoffTick

SpecStandoff == InitStandoff /\ [][NextStandoff]_vars

(***************************************************************************)
(* SpecPed: one Pedestrian object under every sequence of calls of hit and *)
(* update, update with every light and with None, while the clock runs     *)
(***************************************************************************)
MaxTicks == 1600     \* the clock is not advanced past this reading
PedWalk == 30        \* pixels from the start of the pedestrian to its target
ClockSteps == {500, 501}

PedRoutes ==
    {<<CORNER_TL, <<CORNER_TL[1] + PedWalk, CORNER_TL[2]>>, "EW", "NS">>,
     <<CORNER_TL, <<CORNER_TL[1], CORNER_TL[2] + PedWalk>>, "NS", "EW">>}

PedLights ==
    {NoLight} \cup {[state |-> s, timer |-> 0, emergency_mode |-> FALSE] : s \in LightState}

InitPed ==
    /\ traffic_light = TrafficLight_init
    /\ use_drl = TRUE
    /\ frame_count = 0
    /\ calls = <<>>
    /\ shown = 0
    /\ cars = <<>>
    /\ \E route \in PedRoutes : pedestrians = spawn_pedestrian(<<>>, route, 0, 0)
    /\ junction_reservation = <<>>
    /\ moves = <<>>
    /\ entered = <<>>
    /\ clicks = 0
    /\ ticks = 0
    /\ agent = DQNAgent_init

\* p.update(tl, ...); calls names the call and traffic_light keeps its argument
CallPedUpdate ==
    \E tl \in PedLights :
      /\ pedestrians' = <<Pedestrian_update(pedestrians[1], tl)>>
      /\ traffic_light' = tl
      /\ calls' = <<[op |-> "update", args |-> <<tl>>, post |-> tl]>>
      /\ UNCHANGED <<use_drl, frame_count, shown, cars, junction_reservation, moves,
                     entered, clicks, aside>>

\* p.hit()
CallHit ==
    /\ pedestrians' = <<hit(pedestrians[1])>>
    /\ calls' = <<[op |-> "hit", args |-> <<>>, post |-> traffic_light]>>
    /\ UNCHANGED <<traffic_light, use_drl, frame_count, shown, cars,
                   junction_reservation, moves, entered, clicks, aside>>

\* Time passes
ClockRuns ==
    \E d \in ClockSteps :
      /\ ticks + d <= MaxTicks
      /\ ticks' = ticks + d
      /\ calls' = <<>>
      /\ UNCHANGED <<traffic_light, use_drl, frame_count, shown, world, agent>>

NextPed == CallPedUpdate \/ CallHit \/ ClockRuns

SpecPed == InitPed /\ [][NextPed]_vars

(***************************************************************************)
(* SpecAgent: one DQNAgent under every sequence of calls of remember and   *)
(* train, train with every batch size up to one past the memory's maxlen   *)
(***************************************************************************)
\* deque.append on a deque that is full drops the element at the left end
deque_append(q, e, maxlen) == IF Len(q) < maxlen THEN Append(q, e) ELSE Append(Tail(q), e)

\* remember with a memory that has no maxlen
remember_unbounded(a) ==
    [a EXCEPT !.memory = Append(a.memory, a.remembered + 1),
              !.remembered = a.remembered + 1]

\* remember(state, action, reward, next_state, done): the experience is the next
\* serial number
remember(a) ==
    [a EXCEPT !.memory = deque_append(a.memory, a.remembered + 1, MaxMemory),
              !.remembered = a.remembered + 1]

\* train that decays epsilon before it looks at the size of the memory
train_decays_first(a, batch_size) ==
    LET b == IF a.epsilon > epsilon_min
             THEN [a EXCEPT !.epsilon = (a.epsilon * epsilon_decay_num) \div epsilon_decay_den]
             ELSE a
    IN IF Len(a.memory) < batch_size THEN b
       ELSE [b EXCEPT !.updates = a.updates + 1]

\* train(batch_size): nothing with fewer experiences than batch_size, else the
\* update of the weights and biases from a sample of the memory, then the decay of
\* epsilon if it is above epsilon_min
train(a, batch_size) ==
    IF Len(a.memory) < batch_size THEN a
    ELSE IF a.epsilon > epsilon_min
    THEN [a EXCEPT !.updates = a.updates + 1,
                   !.epsilon = (a.epsilon * epsilon_decay_num) \div epsilon_decay_den]
    ELSE [a EXCEPT !.updates = a.updates + 1]

\* DQNAgent(state_size=3, action_size=2), the agent TrafficSimulation constructs
state_size == 3
action_size == 2

\* A state is known by the shape of the numpy array; NoShape is an object that is
\* not an array, Failure stands for an exception of _forward
NoShape == <<-1>>
Failure == <<>>

\* state.reshape(1, -1) of a one-dimensional state
as_rows(shape) == IF Len(shape) = 1 THEN <<1>> \o shape ELSE shape

\* _forward(state), as far as shapes go: the shape of q_values. state.ndim raises on
\* an object that is not an array; a one-dimensional state is reshaped to one row;
\* np.dot raises unless the last dimension of the state is the number of rows of w1,
\* and else every product replaces the last dimension by the columns of the weights.
forward(shape) ==
    IF shape = NoShape THEN Failure
    ELSE IF Last(as_rows(shape)) # state_size THEN Failure
    ELSE [as_rows(shape) EXCEPT ![Len(as_rows(shape))] = action_size]

\* The number of entries of an array of the given shape
RECURSIVE size(_)
size(shape) == IF shape = <<>> THEN 1 ELSE shape[1] * size(Tail(shape))

\* The values np.argmax(q_values[0]) can have: an index into the flattened q_values[0]
argmax_range(shape) ==
    IF forward(shape) = Failure THEN {0} ELSE 0 .. size(Tail(forward(shape))) - 1

\* act(state): explore is np.random.rand() <= self.epsilon, r the draw of
\* random.randrange(self.action_size), best the index np.argmax returns
act(shape, explore, r, best) ==
    IF explore THEN r
    ELSE IF forward(shape) = Failure THEN r
    ELSE best

\* The states act is called with: the row and the one-row matrix of the simulation,
\* two rows, a stack of one two-row matrix, rows of the wrong length, no array
StateInputs == {<<3>>, <<1, 3>>, <<2, 3>>, <<1, 2, 3>>, <<4>>, <<1, 2>>, NoShape}

BatchSizes == 1 .. MaxMemory + 1

InitAgent ==
    /\ traffic_light = TrafficLight_init
    /\ use_drl = TRUE
    /\ frame_count = 0
    /\ calls = <<>>
    /\ shown = 0
    /\ NoAgents

CallRemember ==
    /\ agent.remembered < MaxRemember
    /\ agent' = remember(agent)
    /\ calls' = <<[op |-> "remember", args |-> <<>>, post |-> traffic_light]>>
    /\ UNCHANGED <<traffic_light, use_drl, frame_count, shown, world, ticks>>

CallTrain ==
    \E batch_size \in BatchSizes :
      /\ agent.updates < MaxUpdates
      /\ agent' = train(agent, batch_size)
      /\ calls' = <<[op |-> "train", args |-> <<batch_size>>, post |-> traffic_light]>>
      /\ UNCHANGED <<traffic_light, use_drl, frame_count, shown, world, ticks>>

\* np.random.rand() is in [0, 1): with epsilon = 1 the draw is never above it
CallAct ==
    \E shape \in StateInputs, r \in 0 .. action_size - 1,
       explore \in (IF agent.epsilon >= MILLION THEN {TRUE} ELSE BOOLEAN) :
      \E best \in argmax_range(shape) :
        /\ calls' = <<[op |-> "act", args |-> <<shape, explore>>, post |-> traffic_light,
                       ret |-> act(shape, explore, r, best)]>>
        /\ UNCHANGED <<traffic_light, use_drl, frame_count, shown, world, aside>>

NextAgent == CallRemember \/ CallTrain \/ CallAct

SpecAgent == InitAgent /\ [][NextAgent]_vars

(***************************************************************************)
(* SpecMove: Vehicle.move, call after call, on one vehicle built on lane W *)
(* at the start of the lane or near the stop line, an emergency vehicle or *)
(* not, with a light or with None for traffic_light, with a simulation or  *)
(* with None for sim                                                       *)
(***************************************************************************)
MoveStarts == {-50, 200, 230, 262}

MoveLights ==
    {NoLight, TrafficLight_init, set_emergency_mode(TrafficLight_init, TRUE, "W")}

InitMove ==
    /\ \E x \in MoveStarts, is_emergency \in BOOLEAN, tl \in MoveLights :
         /\ cars = <<[Vehicle_init(1, "W", is_emergency) EXCEPT !.x = x * SCALE]>>
         /\ traffic_light = tl
    /\ use_drl = TRUE
    /\ frame_count = 0
    /\ calls = <<>>
    /\ shown = 0
    /\ pedestrians = <<>>
    /\ junction_reservation = <<>>
    /\ moves = <<>>
    /\ entered = <<0>>
    /\ clicks = 0
    /\ ticks = 0
    /\ agent = DQNAgent_init

\* What the move of the vehicle leaves: w is the result of move_all
leave(w) ==
    /\ cars' = w.cars
    /\ junction_reservation' = w.ledger
    /\ moves' = w.moves
    /\ entered' = w.entered

\* c.move(traffic_light, cars, pedestrians, sim) while the vehicle is on the map;
\* without a simulation the call returns at once
CallMove ==
    /\ in_bounds(cars[1])
    /\ \E has_sim \in BOOLEAN :
         IF has_sim
         THEN leave(move_all([cars |-> cars, ledger |-> junction_reservation,
                              moves |-> <<>>, entered |-> entered],
                             1, traffic_light, pedestrians))
         ELSE moves' = <<>> /\ UNCHANGED <<cars, junction_reservation, entered>>
    /\ UNCHANGED <<traffic_light, use_drl, frame_count, calls, shown, pedestrians,
                   clicks, aside>>

NextMove == CallMove

SpecMove == InitMove /\ [][NextMove]_vars

(***************************************************************************)
(* Properties                                                              *)
(***************************************************************************)
IsGreen(st) == st \in {"NS_GREEN", "EW_GREEN"}
IsYellow(st) == st \in {"NS_YELLOW", "EW_YELLOW"}

\* The cycle NS_GREEN -> NS_YELLOW -> EW_GREEN -> EW_YELLOW -> NS_GREEN
NextPhase(st) ==
    CASE st = "NS_GREEN" -> "NS_YELLOW"
      [] st = "NS_YELLOW" -> "EW_GREEN"
      [] st = "EW_GREEN" -> "EW_YELLOW"
      [] st = "EW_YELLOW" -> "NS_GREEN"

GreenOf(direction) == IF direction \in {"N", "S"} THEN "NS_GREEN" ELSE "EW_GREEN"

\* The light that call i of the log cs found, tl being the light before the step.
Pre(cs, tl, i) == IF i = 1 THEN tl ELSE cs[i - 1].post

\* C1 as claimed: every change of the phase, by whichever of update, apply_action and
\* set_emergency_mode the orchestrator calls, goes from a phase to its successor in
\* the cycle.
C1_EveryChangeToSuccessor ==
    [][\A i \in DOMAIN calls' :
          LET pre == Pre(calls', traffic_light, i) IN
          calls'[i].post.state \in {pre.state, NextPhase(pre.state)}]_vars

\* C1 amended: every change of the phase made by update or apply_action goes to the
\* successor in the cycle and a yellow phase is only ever entered from the green of
\* its own axis; set_emergency_mode(True, d) puts the light in the green phase of
\* d's axis whatever the phase was, and set_emergency_mode(False) keeps the phase.
C1_ChangesFollowCycleOrOverride ==
    [][\A i \in DOMAIN calls' :
          LET c == calls'[i]
              pre == Pre(calls', traffic_light, i)
          IN /\ c.op # "set_emergency_mode" =>
                  c.post.state \in {pre.state, NextPhase(pre.state)}
             /\ (c.op = "set_emergency_mode" /\ c.args[1]) =>
                  c.post.state = GreenOf(c.args[2])
             /\ (c.op = "set_emergency_mode" /\ ~c.args[1]) =>
                  c.post.state = pre.state
             /\ (IsYellow(c.post.state) /\ c.post.state # pre.state) =>
                  (IsGreen(pre.state) /\ NextPhase(pre.state) = c.post.state)]_vars

\* C1 witness: update has just taken a yellow phase to the other axis's green.
C1_Witness ==
    /\ calls # <<>>
    /\ Last(calls).op = "update"
    /\ traffic_light.state = "EW_GREEN"
    /\ ~traffic_light.emergency_mode
    /\ shown = 1

\* C2: outside emergency override a green phase is ended, by update or by
\* apply_action, in fallback mode and in DRL mode, only after it has been published
\* for at least MIN_GREEN_TIME ticks (shown counts them from the entry of the phase
\* or, if later, from the last tick of an override, so it never exceeds the ticks
\* since the phase was entered).
C2_GreenHeldMinimum ==
    [][(/\ IsGreen(traffic_light.state)
        /\ traffic_light'.state # traffic_light.state
        /\ ~traffic_light'.emergency_mode) => shown >= MIN_GREEN_TIME]_vars

\* C2 witness: in DRL mode apply_action(1) has just ended a green phase.
C2_Witness ==
    /\ use_drl
    /\ shown = 1
    /\ traffic_light.state = "NS_YELLOW"
    /\ \E i \in DOMAIN calls :
         calls[i].op = "apply_action" /\ calls[i].post.state = "NS_YELLOW"

\* C3 as claimed: outside emergency override every yellow phase has been published
\* for exactly YELLOW_TIME ticks when the light leaves it, in fallback mode and in
\* DRL mode alike.
C3_YellowLastsYellowTime ==
    [][(/\ IsYellow(traffic_light.state)
        /\ traffic_light'.state # traffic_light.state
        /\ ~traffic_light'.emergency_mode) => shown = YELLOW_TIME]_vars

\* C4: the two axes are mutually exclusive: never both green, and when one is green
\* or yellow the other is red.
C4_AxesMutuallyExclusive ==
    LET ns == get_color_state(traffic_light, "NS")
        ew == get_color_state(traffic_light, "EW")
    IN /\ ~(ns = COLOR_GREEN_ON /\ ew = COLOR_GREEN_ON)
       /\ ns \in {COLOR_GREEN_ON, COLOR_YELLOW_ON} => ew = COLOR_RED_ON
       /\ ew \in {COLOR_GREEN_ON, COLOR_YELLOW_ON} => ns = COLOR_RED_ON

\* C4 witness: the EW axis shows yellow (after a minimum green), the NS axis red.
C4_Witness ==
    /\ get_color_state(traffic_light, "EW") = COLOR_YELLOW_ON
    /\ get_color_state(traffic_light, "NS") = COLOR_RED_ON

\* C5: set_emergency_mode(True, d) leaves the light in the green phase of d's axis
\* with timer 0 and the emergency flag set, whatever the phase was; and while the
\* flag is set every update and every apply_action leaves phase and timer as they
\* were.
C5_EmergencyForcesAndSuppresses ==
    [][\A i \in DOMAIN calls' :
          LET c == calls'[i]
              pre == Pre(calls', traffic_light, i)
          IN /\ (c.op = "set_emergency_mode" /\ c.args[1] /\ c.args[2] \in Direction) =>
                  /\ c.post.state = GreenOf(c.args[2])
                  /\ c.post.timer = 0
                  /\ c.post.emergency_mode
             /\ (pre.emergency_mode /\ c.op \in {"update", "apply_action"}) =>
                  /\ c.post.state = pre.state
                  /\ c.post.timer = pre.timer
                  /\ c.post.emergency_mode]_vars

\* C5 witness: the override forced EW_GREEN from a running NS phase and update has
\* since been called under it.
C5_Witness ==
    /\ traffic_light.emergency_mode
    /\ traffic_light.state = "EW_GREEN"
    /\ traffic_light.timer = 0
    /\ calls # <<>>
    /\ Last(calls).op = "update"

(***************************************************************************)
(* Properties of the vehicles and the ledger                               *)
(***************************************************************************)
NoDuplicates(s) == \A i, j \in DOMAIN s : s[i] = s[j] => i = j

\* The vehicle of the list with the identity id
car(id) == cars[CHOOSE j \in DOMAIN cars : cars[j].id = id]
present(id) == \E j \in DOMAIN cars : cars[j].id = id

SpeedOk(v) ==
    /\ 0 <= v.current_speed /\ v.current_speed <= CAR_SPEED * SCALE
    /\ v.stopped <=> v.current_speed < SNAP_EPSILON
    /\ v.stopped => v.current_speed = 0

\* C6: every vehicle, from its creation and after every call of move, has
\* 0 <= current_speed <= CAR_SPEED, and its stopped flag is set exactly when
\* current_speed is below the snap-to-zero epsilon 0.05, and then current_speed is 0.
C6_SpeedWithinLimits ==
    /\ \A origin \in Direction, is_emergency \in BOOLEAN :
         SpeedOk(Vehicle_init(1, origin, is_emergency))
    /\ \A j \in DOMAIN cars : SpeedOk(cars[j])
    /\ \A i \in DOMAIN moves : SpeedOk(moves[i].vehicle)

\* C6 witness: move has braked a vehicle to a halt while another one is between
\* halt and full speed.
C6_Witness ==
    /\ \E i \in DOMAIN moves :
         moves[i].vehicle.stopped /\ moves[i].vehicle.target_speed = 0
    /\ \E i \in DOMAIN moves :
         /\ 0 < moves[i].vehicle.current_speed
         /\ moves[i].vehicle.current_speed < CAR_SPEED * SCALE

\* C7: the ledger holds no vehicle twice, after every tick and after every single
\* move call within a tick.
C7_LedgerDuplicateFree ==
    /\ NoDuplicates(junction_reservation)
    /\ \A i \in DOMAIN moves :
         NoDuplicates(moves[i].before) /\ NoDuplicates(moves[i].ledger)

\* C7 witness: a vehicle that the purge kept in the ledger has made its move inside
\* the admission window, next to another member.
C7_Witness ==
    \E i \in DOMAIN moves :
      /\ -20 < moves[i].dist /\ moves[i].dist < 60
      /\ index(moves[i].before, moves[i].id) >= 0
      /\ Len(moves[i].ledger) >= 2

\* A sequence of vehicle ids is in the order in which the vehicles entered the window
ByArrival(s) == \A i, j \in DOMAIN s : i < j => entered[s[i]] < entered[s[j]]

\* C8 as claimed: the ledger is ordered by arrival: of two members, the one that
\* entered the admission window first (in an earlier tick, or earlier in the same
\* tick's iteration) precedes the other.
C8_LedgerOrderedByArrival == ByArrival(junction_reservation)

\* C9 as claimed: a vehicle that is in the ledger at an index above 1 at its own move
\* gets the rule speed 0 and so the target speed 0, and in a tick at most two members
\* of the ledger get a rule speed above 0.
C9_OnlyFirstTwoProceed ==
    /\ \A i \in DOMAIN moves :
         moves[i].index > 1 =>
           moves[i].v_rules = 0 /\ moves[i].vehicle.target_speed = 0
    /\ Cardinality({i \in DOMAIN moves : moves[i].index >= 0 /\ moves[i].v_rules > 0}) <= 2

\* C10 as claimed: of two vehicles of one lane that are both in the ledger and both
\* inside the admission window, the one that registered later is never ahead of the
\* one that registered first.
C10_LaterRegistrantNeverAhead ==
    \A i, j \in DOMAIN junction_reservation :
      (/\ i < j
       /\ present(junction_reservation[i]) /\ present(junction_reservation[j])) =>
        LET a == car(junction_reservation[i])
            b == car(junction_reservation[j])
        IN (/\ a.origin = b.origin /\ in_window(a) /\ in_window(b)
            /\ entered[a.id] < entered[b.id]) =>
             get_dist_to_stop_line(a) <= get_dist_to_stop_line(b)

(***************************************************************************)
(* Properties of the two speed layers of a vehicle                         *)
(***************************************************************************)
\* The look-ahead length of _check_pedestrians at the vehicle's speed
look_ahead_of(v) == Max(50 * SCALE, v.current_speed * LOOK_AHEAD_FACTOR)

\* The sensor region projected forward from where the vehicle is
projected(v) == sensor_rect(v, look_ahead_of(v))

\* The pedestrian layer looks at the pedestrians for this vehicle
scans(v) == ~v.is_emergency /\ ~v.ignore_npc /\ pedestrians # <<>>

\* Some pedestrian that is neither done nor DOWN intersects the region r and is
\* nearer to the centre of the vehicle v than SAFE_HALT_DISTANCE
close_in(v, r) ==
    \E k \in DOMAIN pedestrians :
      LET p == pedestrians[k] c == center(VRect(v)) IN
      /\ ~p.done /\ p.state # "DOWN"
      /\ colliderect(r, PRect(p))
      /\ Hypot(c[1] - p.x, c[2] - p.y) < SAFE_HALT_DISTANCE * SCALE

\* C11 as claimed: a vehicle that is neither an emergency vehicle nor in ignore mode
\* gets the target speed 0 in every tick in which a pedestrian that is neither done
\* nor DOWN intersects its forward sensor region nearer than SAFE_HALT_DISTANCE.
C11_HaltsForClosePedestrian ==
    \A i \in DOMAIN moves :
      (scans(moves[i].was) /\ close_in(moves[i].was, projected(moves[i].was)))
        => moves[i].vehicle.target_speed = 0

\* C12 as claimed: in every tick the region the pedestrian layer scans is the one
\* projected forward from the vehicle's bounding box of that tick, also when the
\* look-ahead length is the one of the tick before.
C12_SensorProjectedFromCurrentBox ==
    \A i \in DOMAIN moves :
      scans(moves[i].was)
        => moves[i].vehicle.cached_sensor_rect = projected(moves[i].was)

\* The move of log entry m found the vehicle at speed 0, held by the pedestrian layer
\* alone: the pedestrian layer returned 0 and the rule layer a positive speed
held(m) ==
    /\ ~m.was.is_emergency
    /\ m.was.current_speed = 0
    /\ m.v_ped = 0
    /\ m.v_rules > 0

\* C13 as claimed: a vehicle held at speed 0 by a pedestrian who does not move, the
\* rule layer allowing motion, is in ignore mode at the end of the move that takes
\* its patience past PATIENCE_THRESHOLD, so that the standoff ends.
C13_StandoffEnds ==
    \A i \in DOMAIN moves :
      (held(moves[i]) /\ moves[i].was.patience + 2 > PATIENCE_THRESHOLD)
        => moves[i].vehicle.ignore_npc

(***************************************************************************)
(* Properties of a pedestrian                                              *)
(***************************************************************************)
\* The pedestrian of SpecPed
ped == pedestrians[1]

\* The step is a call of update
updates == calls' # <<>> /\ calls'[1].op = "update"

\* C14: a pedestrian that has been DOWN for more than DESPAWN_TIME is done after the
\* next update; no call moves a pedestrian that is DOWN or done; done stays done.
C14_DownThenDoneAndStill ==
    [][/\ (updates /\ ped.state = "DOWN" /\ ticks - ped.down_timer > DESPAWN_TIME * 1000)
          => ped'.done
       /\ (ped.state = "DOWN" \/ ped.done) => (ped'.x = ped.x /\ ped'.y = ped.y)
       /\ ped.done => ped'.done]_vars

\* C14 does happen: a pedestrian hit on its way is done by the update that comes a
\* millisecond after DESPAWN_TIME
C14_Witness ==
    /\ cars = <<>> /\ Len(pedestrians) = 1
    /\ calls # <<>> /\ calls[1].op = "update"
    /\ ped.state = "DOWN" /\ ped.done /\ ped.walking
    /\ ticks - ped.down_timer = DESPAWN_TIME * 1000 + 1

(***************************************************************************)
(* Properties of the learning agent                                        *)
(***************************************************************************)
\* C15 as claimed: over every sequence of train calls epsilon never grows and never
\* drops below epsilon_min.
C15_EpsilonDecaysToFloor ==
    [][agent'.epsilon <= agent.epsilon /\ agent'.epsilon >= epsilon_min]_vars

\* The experiences from serial number lo up to hi, in order
serials(lo, hi) == [i \in 1 .. (hi - lo + 1) |-> lo + i - 1]

\* C16: the replay memory holds at most maxlen experiences, and they are the ones
\* remembered last, in the order in which they were remembered: at capacity the
\* oldest one is dropped
C16_MemoryBoundedFifo ==
    /\ Len(agent.memory) <= MaxMemory
    /\ agent.memory = serials(Max(1, agent.remembered - MaxMemory + 1), agent.remembered)

\* C16 does happen: the memory is full and experiences have been dropped
C16_Witness ==
    /\ agent.remembered > MaxMemory + 1
    /\ Len(agent.memory) = MaxMemory
    /\ agent.memory[1] = agent.remembered - MaxMemory + 1

(***************************************************************************)
(* Properties of Vehicle.move                                              *)
(***************************************************************************)
\* C17: the target speed that move sets is the smaller one of the speeds that the
\* pedestrian layer and the rule layer returned in that tick; the patience logic,
\* which runs after it, does not raise it.
C17_TargetIsMinOfLayers ==
    \A i \in DOMAIN moves :
      moves[i].vehicle.target_speed = Min(moves[i].v_ped, moves[i].v_rules)

\* C17 does happen: a vehicle's patience runs out in a move whose pedestrian layer
\* returned 0 and whose rule layer returned more, and its target speed is 0
C17_Witness ==
    \E i \in DOMAIN moves :
      /\ held(moves[i])
      /\ moves[i].was.patience + 2 > PATIENCE_THRESHOLD
      /\ moves[i].v_rules = CAR_SPEED * SCALE
      /\ moves[i].vehicle.target_speed = 0

\* C18: a move with None for traffic_light raises no error; for a vehicle that is not
\* an emergency vehicle the rule layer returns 0, the target speed is 0, and the call
\* does not enter the vehicle in the ledger.
C18_NoLightStops ==
    \A i \in DOMAIN moves :
      (traffic_light = NoLight /\ ~moves[i].was.is_emergency)
        => /\ moves[i].v_rules = 0
           /\ moves[i].vehicle.target_speed = 0
           /\ moves[i].ledger = moves[i].before

\* C18 does happen: a vehicle inside the admission window, not in the ledger, moves
\* with None for traffic_light, and is not in the ledger afterwards
C18_Witness ==
    \E i \in DOMAIN moves :
      /\ traffic_light = NoLight /\ ~moves[i].was.is_emergency
      /\ in_window(moves[i].was)
      /\ moves[i].vehicle.target_speed = 0
      /\ moves[i].index = -1

\* The light that the update of this step was given shows RED_ON to the pedestrian
red_for_ped ==
    /\ traffic_light' # NoLight
    /\ get_color_state(traffic_light', ped.control_axis) = COLOR_RED_ON

\* C19: a pedestrian starts to walk only in an update whose light shows RED_ON on its
\* controlling axis, never on GREEN_ON or YELLOW_ON and never without a light; once
\* it walks, every update takes it PEDESTRIAN_SPEED further toward its target,
\* whatever the light shows, until it is done or DOWN.
C19_StartsOnRedThenWalksOn ==
    [][/\ (~ped.walking /\ (ped'.walking \/ ped'.x # ped.x \/ ped'.y # ped.y))
          => (updates /\ red_for_ped)
       /\ (updates /\ ped.walking /\ ~ped.done /\ ped.state # "DOWN")
          => /\ ped'.x = ped.x + ped.dir_x * PEDESTRIAN_SPEED
             /\ ped'.y = ped.y + ped.dir_y * PEDESTRIAN_SPEED]_vars

\* C19 does happen: a pedestrian under way has been taken further by an update whose
\* light shows GREEN_ON on its controlling axis
C19_Witness ==
    /\ cars = <<>> /\ Len(pedestrians) = 1
    /\ calls # <<>> /\ calls[1].op = "update"
    /\ ped.walking /\ ped.state # "DOWN" /\ ~ped.done
    /\ traffic_light # NoLight
    /\ get_color_state(traffic_light, ped.control_axis) = COLOR_GREEN_ON
    /\ Abs(ped.x - CORNER_TL[1]) + Abs(ped.y - CORNER_TL[2]) >= 2 * PEDESTRIAN_SPEED

\* The vehicles of the last tick as they were when the tick began: each one is as
\* its own move found it
snapshot == [j \in DOMAIN moves |-> moves[j].was]

\* C20 as claimed: every vehicle's target speed of a tick is the one that its layers
\* compute from the vehicles as they were at the end of the tick before, whether or
\* not the moves of other vehicles of the same tick have been made.
C20_DecidesOnPreviousTick ==
    \A i \in DOMAIN moves :
      moves[i].vehicle.target_speed
        = move(i, traffic_light, snapshot, pedestrians, moves[i].before).vehicle.target_speed

(***************************************************************************)
(* Properties of the orchestrated signal                                   *)
(***************************************************************************)
\* C21 as claimed: when a click on the emergency button has created an emergency
\* vehicle with origin o, the signal step of the tick that follows leaves the light
\* in emergency mode on the green of the axis of o, whatever other emergency vehicles
\* are in the simulation.
C21_OverrideServesNewVehicle ==
    [][clicks' > clicks =>
         \A j \in DOMAIN cars' :
           cars'[j].id = Len(entered) + 1 =>
             /\ traffic_light'.emergency_mode
             /\ traffic_light'.state = GreenOf(cars'[j].origin)]_vars

\* C22 as claimed: the pedestrians advance after the vehicles of the tick have
\* decided, so in a tick that spawns no pedestrian every vehicle's pedestrian layer
\* returns the speed it computes from the pedestrians as the tick found them.
C22_VehiclesDecideBeforePedestriansStep ==
    [][frame_count % PEDESTRIAN_SPAWN_RATE # 0 =>
         \A i \in DOMAIN moves' :
           moves'[i].v_ped = check_pedestrians(moves'[i].was, pedestrians).speed]_vars

\* C23: a call of get_color_state leaves the phase, the timer and the emergency flag
\* as it found them, and when the call before it was a get_color_state for the same
\* axis, with no other call between the two, it returns the same color.
C23_ColorQueryIsPure ==
    [][\A i \in DOMAIN calls' :
         calls'[i].op = "get_color_state" =>
           /\ calls'[i].post = Pre(calls', traffic_light, i)
           /\ calls'[i].ret = get_color_state(Pre(calls', traffic_light, i),
                                              calls'[i].args[1])
           /\ (/\ calls # <<>>
               /\ Last(calls).op = "get_color_state"
               /\ Last(calls).args = calls'[i].args)
                => calls'[i].ret = Last(calls).ret]_vars

\* A query of the NS axis has returned yellow, in the middle of a yellow phase
C23_Witness ==
    /\ calls # <<>>
    /\ Last(calls).op = "get_color_state"
    /\ Last(calls).args = <<"NS">>
    /\ Last(calls).ret = COLOR_YELLOW_ON
    /\ traffic_light.state = "NS_YELLOW"
    /\ traffic_light.timer > 0

\* C26: in a run in which set_emergency_mode is never called with active = True,
\* whatever the order of the calls of update and apply_action and whatever the
\* queues, the light is never in emergency mode and a call of update or apply_action
\* that changes the phase takes it to its successor in the cycle.
C26_CycleWithoutOverride ==
    [][/\ ~traffic_light'.emergency_mode
       /\ \A i \in DOMAIN calls' :
            (/\ calls'[i].op \in {"update", "apply_action"}
             /\ calls'[i].post.state # Pre(calls', traffic_light, i).state)
              => calls'[i].post.state = NextPhase(Pre(calls', traffic_light, i).state)]_vars

\* apply_action(1) has just ended the EW green, which the run reached by the cycle
C26_Witness ==
    /\ calls # <<>>
    /\ Last(calls).op = "apply_action"
    /\ Last(calls).args = <<1>>
    /\ traffic_light = [state |-> "EW_YELLOW", timer |-> 0, emergency_mode |-> FALSE]

\* The axis a phase belongs to, and the other axis
AxisOf(st) == IF st \in {"NS_GREEN", "NS_YELLOW"} THEN "NS" ELSE "EW"
Opposing(axis) == IF axis = "NS" THEN "EW" ELSE "NS"

\* The opposing axis's queue is strictly longer than the queue of the axis of phase st
outweighed(queues, st) == queues[Opposing(AxisOf(st))] > queues[AxisOf(st)]

\* C27: an update that finds a green phase leaves it exactly when the light is not in
\* emergency mode, the timer it counts is above MIN_GREEN_TIME and the opposing
\* axis's queue is strictly longer than the green axis's; so in fallback mode a tick
\* without an emergency vehicle whose queues are equal, or shorter on the opposing
\* axis, keeps the green it found, however long that green has lasted.
C27_GreenLeftOnlyForLongerQueue ==
    [][/\ \A i \in DOMAIN calls' :
            (calls'[i].op = "update" /\ IsGreen(Pre(calls', traffic_light, i).state)) =>
              ((calls'[i].post.state # Pre(calls', traffic_light, i).state)
                 <=> (/\ ~Pre(calls', traffic_light, i).emergency_mode
                      /\ Pre(calls', traffic_light, i).timer + 1 > MIN_GREEN_TIME
                      /\ outweighed(calls'[i].args[1],
                                    Pre(calls', traffic_light, i).state)))
       /\ (/\ ~use_drl
           /\ IsGreen(traffic_light.state)
           /\ \A i \in DOMAIN calls' :
                /\ calls'[i].op = "set_emergency_mode" => ~calls'[i].args[1]
                /\ calls'[i].op = "update" =>
                     ~outweighed(calls'[i].args[1], traffic_light.state))
            => traffic_light'.state = traffic_light.state]_vars

\* Fallback mode: the NS green has lasted a minimum green time and a yellow time
\* more, and the tick's update, given an EW queue no longer than the NS queue while
\* a vehicle waits on EW, has kept it
C27_Witness ==
    /\ ~use_drl
    /\ traffic_light.state = "NS_GREEN"
    /\ ~traffic_light.emergency_mode
    /\ traffic_light.timer > MIN_GREEN_TIME + YELLOW_TIME
    /\ calls # <<>>
    /\ Last(calls).op = "update"
    /\ Last(calls).args[1]["EW"] = 1
    /\ Last(calls).args[1]["NS"] = 1

\* C28: apply_action(action) with action = 1 on a light that is not in emergency
\* mode, is in a green phase and has a timer of at least MIN_GREEN_TIME leaves the
\* yellow of the same axis with the timer 0; every other call leaves phase, timer and
\* emergency flag as they were; no call raises the timer.
C28_ApplyActionFrame ==
    [][\A i \in DOMAIN calls' :
         calls'[i].op = "apply_action" =>
           /\ calls'[i].post.timer <= Pre(calls', traffic_light, i).timer
           /\ IF /\ calls'[i].args[1] = 1
                 /\ ~Pre(calls', traffic_light, i).emergency_mode
                 /\ Pre(calls', traffic_light, i).timer >= MIN_GREEN_TIME
                 /\ IsGreen(Pre(calls', traffic_light, i).state)
              THEN /\ IsYellow(calls'[i].post.state)
                   /\ AxisOf(calls'[i].post.state)
                        = AxisOf(Pre(calls', traffic_light, i).state)
                   /\ calls'[i].post.timer = 0
                   /\ ~calls'[i].post.emergency_mode
              ELSE calls'[i].post = Pre(calls', traffic_light, i)]_vars

\* apply_action(1) has been called in emergency mode on a green that has lasted the
\* minimum green time, and has left it
C28_Witness ==
    /\ calls # <<>>
    /\ Last(calls).op = "apply_action"
    /\ Last(calls).args = <<1>>
    /\ traffic_light.emergency_mode
    /\ IsGreen(traffic_light.state)
    /\ traffic_light.timer >= MIN_GREEN_TIME

\* Some vehicle that made a move in the tick is an emergency vehicle: every vehicle
\* that is in self.cars at the signal step of a tick makes a move in that tick
siren ==
    \E i \in DOMAIN moves' : moves'[i].was.is_emergency

\* C29: a tick leaves the light in emergency mode exactly when an emergency vehicle
\* is among the vehicles at its signal step, and then with the timer 0;
\* set_emergency_mode(False) changes the flag alone; the tick in which the override
\* ends keeps the forced green and counts its first tick, every later tick that keeps
\* the green counts one more, and the green is not left before the count has reached
\* MIN_GREEN_TIME.
C29_OverrideTracksEmergencyVehicles ==
    [][/\ traffic_light'.emergency_mode <=> siren
       /\ traffic_light'.emergency_mode => traffic_light'.timer = 0
       /\ \A i \in DOMAIN calls' :
            (calls'[i].op = "set_emergency_mode" /\ ~calls'[i].args[1]) =>
              calls'[i].post = [Pre(calls', traffic_light, i) EXCEPT !.emergency_mode = FALSE]
       /\ (traffic_light.emergency_mode /\ ~traffic_light'.emergency_mode) =>
            /\ traffic_light'.state = traffic_light.state
            /\ traffic_light'.timer = 1
       /\ (IsGreen(traffic_light.state) /\ ~traffic_light'.emergency_mode) =>
            IF traffic_light'.state = traffic_light.state
            THEN traffic_light'.timer = traffic_light.timer + 1
            ELSE traffic_light.timer >= MIN_GREEN_TIME]_vars

\* The one emergency vehicle of the run has left the map and the EW green that it
\* forced has since been ended by apply_action
C29_Witness ==
    /\ clicks = 1
    /\ \A j \in DOMAIN cars : ~cars[j].is_emergency
    /\ traffic_light.state = "EW_YELLOW"
    /\ traffic_light.timer = 1
    /\ frame_count <= 600

(***************************************************************************)
(* Properties of the learning agent                                        *)
(***************************************************************************)
\* C24: a train(batch_size) that finds fewer than batch_size experiences in the
\* memory leaves the memory, the weights and biases and epsilon as they are; no train
\* changes the memory; and a train changes epsilon only when it updates the weights,
\* and then to epsilon times the decay factor.
C24_TrainNoOpBelowBatch ==
    [][\A i \in DOMAIN calls' :
         calls'[i].op = "train" =>
           /\ Len(agent.memory) < calls'[i].args[1] => agent' = agent
           /\ agent'.memory = agent.memory
           /\ agent'.epsilon # agent.epsilon =>
                /\ agent'.updates = agent.updates + 1
                /\ agent'.epsilon
                     = (agent.epsilon * epsilon_decay_num) \div epsilon_decay_den]_vars

\* A train with a batch size above the number of experiences in a memory that is not
\* empty, after a train that updated the weights and decayed epsilon
C24_Witness ==
    /\ calls # <<>>
    /\ Last(calls).op = "train"
    /\ agent.memory # <<>>
    /\ Len(agent.memory) < Last(calls).args[1]
    /\ agent.updates > 0
    /\ agent.epsilon < MILLION

\* C25 as claimed: whatever the state it is called with, act returns 0 or 1.
C25_ActReturnsValidAction ==
    \A i \in DOMAIN calls :
      calls[i].op = "act" => calls[i].ret \in 0 .. action_size - 1

(***************************************************************************)
(* Properties of the ledger over an approach                               *)
(***************************************************************************)
\* C30 as claimed: a vehicle that is in the ledger when a tick begins and makes its
\* move of the tick inside the admission window has stayed in the ledger, the purge
\* of the tick has not dropped it, and the rank its move leaves it with is not above
\* the rank it had.
C30_RegisteredOncePerApproach ==
    [][\A i \in DOMAIN moves' :
         (/\ in_window(moves'[i].was)
          /\ index(junction_reservation, moves'[i].id) >= 0)
           => /\ index(moves'[i].before, moves'[i].id) >= 0
              /\ index(moves'[i].ledger, moves'[i].id)
                   <= index(junction_reservation, moves'[i].id)]_vars

(***************************************************************************)
(* Properties of the patience logic                                        *)
(***************************************************************************)
\* The patience of the move of log entry m after the first statement of
\* _update_patience: two units more if the pedestrian layer returned 0, the rule
\* layer more and the vehicle stood, else one unit less, not below 0
counted(m) ==
    IF m.v_ped = 0 /\ m.v_rules > 0 /\ m.was.current_speed = 0
    THEN m.was.patience + 2
    ELSE Max(0, m.was.patience - 1)

\* Some pedestrian of the list overlaps the box the vehicle of log entry m has at its
\* patience step, inflated by the margin
overlapped(m) ==
    \E k \in DOMAIN pedestrians :
      colliderect(inflate(VRect(m.was), 10, 10), PRect(pedestrians[k]))

cars_at(i) ==
    [j \in DOMAIN moves |-> IF j < i THEN moves[j].vehicle ELSE moves[j].was]

\* The speed the rule layer returns to a vehicle that is not an emergency vehicle and
\* has the green, in the place of the vehicle of log entry i
as_normal_on_green(i) ==
    check_traffic_rules([moves[i].was EXCEPT !.is_emergency = FALSE],
                        [state |-> GreenOf(moves[i].was.origin), timer |-> 0,
                         emergency_mode |-> FALSE],
                        cars_at(i), moves[i].before).speed

\* C33: the pedestrian layer of an emergency vehicle returns CAR_SPEED; its rule
\* layer is never decided by the signal or by a missing light, and returns what it
\* returns to a normal vehicle that has the green in its place: 0 for a rank above 1
\* in the ledger, an exit that is not clear, a vehicle close ahead or cross traffic
\* in the intersection.
C33_EmergencyExemptFromSignalOnly ==
    \A i \in DOMAIN moves :
      moves[i].was.is_emergency =>
        /\ moves[i].v_ped = CAR_SPEED * SCALE
        /\ moves[i].rule \notin {"signal", "no light"}
        /\ moves[i].v_rules = as_normal_on_green(i)

\* An emergency vehicle in the stretch before its stop line in which a red light
\* stops a normal vehicle, facing red, has been stopped by another rule
C33_Witness ==
    \E i \in DOMAIN moves :
      /\ moves[i].was.is_emergency
      /\ traffic_light # NoLight
      /\ get_color_state(traffic_light, axis_of(moves[i].was.origin)) = COLOR_RED_ON
      /\ 5 < moves[i].dist /\ moves[i].dist < 50
      /\ moves[i].v_rules = 0

(***************************************************************************)
(* Properties of the control tier                                          *)
(***************************************************************************)
\* The calls of the tick that has just been made with the method op
made(op) == {i \in DOMAIN calls' : calls'[i].op = op}

\* The tick is one on the policy's cadence without an emergency vehicle: its frame
\* count is a multiple of 60 and its regulatory logic called set_emergency_mode(False)
on_cadence ==
    /\ frame_count' % 60 = 0
    /\ \E i \in made("set_emergency_mode") : ~calls'[i].args[1]

\* With the policy enabled, remember, train and act are called at most once in a tick
\* and, like apply_action, only on the cadence; update is called only on a yellow
cadence_kept ==
    /\ \A op \in {"remember", "train", "act"} : Cardinality(made(op)) <= 1
    /\ \A op \in {"remember", "train", "act", "apply_action"} :
         made(op) # {} => on_cadence
    /\ \A i \in made("update") : IsYellow(Pre(calls', traffic_light, i).state)

\* An apply_action(1) of the tick has ended the green
switched ==
    \E i \in made("apply_action") :
      /\ calls'[i].args = <<1>>
      /\ IsGreen(Pre(calls', traffic_light, i).state)
      /\ calls'[i].post.state # Pre(calls', traffic_light, i).state

\* C34 as claimed: with the policy enabled the calls on the agent keep the cadence
\* and every tick that ends a green phase does so by an apply_action(1) on the
\* cadence.
C34_GreenEndedOnlyByPolicy ==
    [][use_drl =>
         /\ cadence_kept
         /\ (IsGreen(traffic_light.state) /\ traffic_light'.state # traffic_light.state)
              => switched]_vars

\* C34 amended: with the policy enabled the calls on the agent keep the cadence and
\* a tick that ends a green phase does so by an apply_action(1) on the cadence or by
\* set_emergency_mode(True, d) for a lane d of the other axis, which forces that
\* axis's green; the queue lengths alone never end it.
C34_GreenEndedByPolicyOrOverride ==
    [][use_drl =>
         /\ cadence_kept
         /\ (IsGreen(traffic_light.state) /\ traffic_light'.state # traffic_light.state)
              => \/ switched
                 \/ \E i \in made("set_emergency_mode") :
                      /\ calls'[i].args[1]
                      /\ calls'[i].post.state = GreenOf(calls'[i].args[2])
                      /\ calls'[i].post.state = traffic_light'.state]_vars

\* With the policy enabled, a tick on the cadence has called remember, train and act,
\* act has returned 1 and apply_action has ended the EW green although the NS queue
\* is empty
C34_Witness ==
    /\ use_drl
    /\ frame_count % 60 = 0
    /\ Len(calls) = 6
    /\ calls[1].op = "remember" /\ calls[2].op = "train" /\ calls[3].op = "act"
    /\ calls[3].ret = 1
    /\ calls[4].op = "apply_action"
    /\ calls[4].post.state = "EW_YELLOW"
    /\ calls[6].op = "update"
    /\ calls[6].args[1]["NS"] = 0

(***************************************************************************)
(* Properties of the ledger and the removal of vehicles                    *)
(***************************************************************************)
\* C35: after every tick, the vehicles that left the map removed, every member of the
\* ledger is in the list of vehicles.
C35_LedgerMembersPresent ==
    \A i \in DOMAIN junction_reservation : present(junction_reservation[i])

\* A vehicle that was in the ledger on its way through the junction has left the map
\* and been removed, and the ledger has a member
C35_Witness ==
    /\ junction_reservation # <<>>
    /\ \E id \in DOMAIN entered : entered[id] > 0 /\ ~present(id)

(***************************************************************************)
(* Properties of the kinematics                                            *)
(***************************************************************************)
\* The speed nearest to the target speed that the move of log entry m can reach from
\* the speed it found: not more than ACCELERATION_RATE above it, not more than
\* DECELERATION_RATE below it, not past the target
reach(m) ==
    Max(m.was.current_speed - DECELERATION_RATE,
        Min(m.was.current_speed + ACCELERATION_RATE, m.vehicle.target_speed))

\* C36: a move takes the speed toward the target speed by at most ACCELERATION_RATE
\* up or DECELERATION_RATE down and not past the target; if that speed is below 0.05
\* the speed becomes 0 and the position stays, else the position advances by that
\* speed along the direction vector of the vehicle's lane; the lane, and with it the
\* direction vector, is the one the vehicle was created with.
C36_KinematicsStep ==
    \A i \in DOMAIN moves :
      /\ moves[i].vehicle.origin = moves[i].was.origin
      /\ IF reach(moves[i]) < SNAP_EPSILON
         THEN /\ moves[i].vehicle.current_speed = 0
              /\ moves[i].vehicle.x = moves[i].was.x
              /\ moves[i].vehicle.y = moves[i].was.y
         ELSE /\ moves[i].vehicle.current_speed = reach(moves[i])
              /\ moves[i].vehicle.x
                   = moves[i].was.x + direction_vector(moves[i].was)[1] * reach(moves[i])
              /\ moves[i].vehicle.y
                   = moves[i].was.y + direction_vector(moves[i].was)[2] * reach(moves[i])

\* A move has found a speed above 0, been held to a speed above 0 and below 0.05,
\* taken the speed to 0 and left the vehicle standing where it was
C36_Witness ==
    \E i \in DOMAIN moves :
      /\ moves[i].was.current_speed > 0
      /\ reach(moves[i]) > 0
      /\ reach(moves[i]) < SNAP_EPSILON
      /\ moves[i].vehicle.current_speed = 0
      /\ moves[i].vehicle.x = moves[i].was.x
      /\ moves[i].vehicle.y = moves[i].was.y

(***************************************************************************)
(* What a move and an update leave alone                                   *)
(***************************************************************************)
\* The pedestrians of the list after each one's own update under the light tl, those
\* that are done taken out
own_updates(peds, tl) ==
    LET not_done(p) == ~p.done
    IN SelectSeq([k \in DOMAIN peds |-> Pedestrian_update(peds[k], tl)], not_done)

\* Every move of the tick found its vehicle as the tick before left it (or the vehicle
\* is new), and every vehicle of the list is as its own move left it
others_kept ==
    /\ \A i \in DOMAIN moves' :
         \/ \E j \in DOMAIN cars : cars[j] = moves'[i].was
         \/ \A j \in DOMAIN cars : cars[j].id # moves'[i].was.id
    /\ \A j \in DOMAIN cars' :
         \E i \in DOMAIN moves' :
           moves'[i].vehicle = cars'[j] /\ moves'[i].was.id = cars'[j].id

\* Every move of the tick left the ledger as it found it or with its own vehicle
\* added at the end, found it as the move before left it, and the last move's
\* ledger is the simulation's
ledger_kept ==
    /\ \A i \in DOMAIN moves' :
         /\ moves'[i].ledger \in {moves'[i].before, Append(moves'[i].before, moves'[i].id)}
         /\ i > 1 => moves'[i].before = moves'[i - 1].ledger
    /\ moves' # <<>> => junction_reservation' = moves'[Len(moves')].ledger

\* The pedestrians are as their own updates left them, with at most one new
\* pedestrian at the end of the list, and the light is as the last call on it left it
bystanders_kept ==
    /\ Len(pedestrians') <= Len(own_updates(pedestrians, traffic_light')) + 1
    /\ \A k \in DOMAIN own_updates(pedestrians, traffic_light') :
         /\ k <= Len(pedestrians')
         /\ pedestrians'[k] = own_updates(pedestrians, traffic_light')[k]
    /\ calls' # <<>> => traffic_light' = calls'[Len(calls')].post

\* C37: a vehicle's move changes only that vehicle's fields and the ledger, to which
\* it adds the vehicle at the end without removing or reordering the others; it
\* changes no other vehicle, no pedestrian and not the light. A pedestrian's update
\* changes only that pedestrian.
C37_MoveAndUpdateFrame ==
    [][moves' # <<>> => others_kept /\ ledger_kept /\ bystanders_kept]_vars

\* Three vehicles have moved in the tick with a walking pedestrian on the map, and one
\* of the moves, not the last, has added its vehicle to a ledger that had a member
C37_Witness ==
    /\ Len(moves) >= 3
    /\ \E k \in DOMAIN pedestrians : pedestrians[k].walking
    /\ \E i \in DOMAIN moves :
         /\ i < Len(moves)
         /\ moves[i].before # <<>>
         /\ moves[i].ledger = Append(moves[i].before, moves[i].id)
         /\ moves[i].vehicle # moves[i].was

====
